---- MODULE Spec2Model ----
(***************************************************************************)
(* A state-machine model of the TechInAsia scraper pipeline                *)
(* (app/scraper/browser.py, app/scraper/main.py, app/scraper/parser.py,    *)
(* app/scraper/storage.py, app/scraper/content_extractor.py,               *)
(* app/human_behavior.py, app/models.py, app/logger.py).                   *)
(*                                                                         *)
(* Python strings are modelled as sequences of one-character strings so    *)
(* that prefix tests, splitting and regular-expression matches are         *)
(* computed rather than assumed.  Every await of the code is one step.     *)
(***************************************************************************)
EXTENDS Integers, Sequences, FiniteSets, TLC

\* ------------------------------------------------------------------------
\* Bounds of the model
\* ------------------------------------------------------------------------
\* largest retry_count drawn for a stand-alone navigate_to_url call
MaxRetry == 5
\* largest retry_count drawn for a pipeline run
MaxRunRetry == 2
\* largest max_scrolls drawn for a pipeline run
MaxScrolls == 2
\* largest num_articles drawn for a pipeline run
MaxQuota == 2
\* largest number of article elements in one page snapshot
MaxCards == 2

\* ------------------------------------------------------------------------
\* State
\* ------------------------------------------------------------------------
VARIABLES
    config,        \* the frozen ScraperConfig of the run, or the values given to build one
    pc,            \* position of the caller (harness or pipeline)
    browser,       \* BrowserManager.browser: "None", "open"
    page,          \* BrowserManager.page: 0 is None, n > 0 a page handle
    simPage,       \* HumanBehaviorSimulator.page
    pagesOpened,   \* number of page handles created so far
    closedPages,   \* handles on which close() completed
    navpc,         \* position inside navigate_to_url
    navUrl,        \* its url argument
    attempt,       \* its loop variable
    lastErr,       \* the exception caught by the running attempt
    navResult,     \* its return value once navpc = "done"
    gotoCalls,     \* observed page.goto calls of the running call
    waits,         \* observed asyncio.sleep calls of the running call
    recreations,   \* observed page recreations of the running call
    browser_manager,        \* TechInAsiaScraper.browser_manager: "None" or "set"
    processed_article_ids,  \* TechInAsiaScraper.processed_article_ids
    articles,               \* the list built and returned by scrape_article_list
    scroll_count,           \* its local scroll_count, Unbound before assignment
    article_elements,       \* the elements selected from the current snapshot
    cardIdx,                \* position of the for loop over article_elements
    listCaller,             \* who awaits scrape_article_list: "direct", "scrape"
    listOutcome,            \* "none", "running", "returned" or "raised"
    listNavigated,          \* result of the listing navigation: "none", "ok", "failed"
    scrollSims,             \* simulate_scrolling calls of the running listing
    snapshots,              \* page.content() calls of the running listing
    parses,                 \* parse_article calls of the running listing
    playwright,             \* the async_playwright() scope: "none", "started", "stopped"
    acquired,               \* times the scope was entered
    released,               \* times the scope was left
    total_articles,         \* TechInAsiaScraper.total_articles
    incomplete_articles,    \* TechInAsiaScraper.incomplete_articles
    articles_with_content,  \* the list built by scrape_article_contents
    enrichIdx,              \* position of its for loop, from 1
    csvSaves,               \* save_to_csv calls of the run
    jsonSaves,              \* save_to_json calls of the run
    summaries,              \* log_summary calls of the run
    scrapeResult,           \* what scrape returned: "none", "empty", "frame"
    exitPath,               \* how scrape ended: "none", "normal", "no_articles", "exception"
    phases,                 \* the operations of the run in the order they began
    extractCaller,          \* who awaits extract_article_content: "loop" or "direct"
    extractArticle,         \* its article argument
    extractOutcome,         \* "none", "running", "returned", "raised"
    extractResult,          \* what it returned
    extractRaisedAt,        \* the step of it that threw: "none", "construct", "navigate", "snapshot", "extract"
    extractNavs,            \* its navigate_to_url calls, with what each returned
    behaviourSims,          \* its simulate_user_behavior calls
    extractCalls,           \* the article ids extract_article_content was called with in this run
    now,                    \* the wall clock read by datetime.now(), in seconds
    element,                \* the article element handed to parse_article on its own
    parsed,                 \* what that call returned
    parseRaised,            \* whether that call let an exception out
    reparsed,               \* what a second call on the same element returned
    enriched,               \* the record built from parsed and a content
    html_content,           \* the document handed to _extract_content_from_html
    htmlExtract,            \* what it returned, and the strategy that produced it
    jsResult,               \* what _extract_content_with_js returned
    contentResult,          \* the content extract_article_content returns
    jsCalls,                \* _extract_content_with_js calls
    simCaller,              \* who awaits simulate_scrolling: "direct" or "user_behavior"
    iterations,             \* its local iterations, Unbound before assignment
    scrollLog,              \* what each of its scroll actions threw, NoError for none
    simOutcome,             \* how simulate_scrolling ended: "none", "returned", "raised"
    behaviourOutcome,       \* how simulate_user_behavior ended: "none", "true", "raised"
    scrapers,               \* the TechInAsiaScraper instances alive side by side
    listing_page            \* the listing document the site serves to them

navVars == <<page, pagesOpened, closedPages, navpc, navUrl, attempt, lastErr, navResult, gotoCalls, waits, recreations>>
listVars == <<browser_manager, processed_article_ids, articles, scroll_count, article_elements, cardIdx, listCaller, listOutcome, listNavigated, scrollSims, snapshots, parses>>
runVars == <<playwright, acquired, released, total_articles, incomplete_articles, articles_with_content, enrichIdx, csvSaves, jsonSaves, summaries, scrapeResult, exitPath>>
extractVars == <<extractCaller, extractArticle, extractOutcome, extractResult, extractRaisedAt, extractNavs, behaviourSims, extractCalls>>
parseVars == <<now, element, parsed, parseRaised, reparsed, enriched>>
contentVars == <<html_content, htmlExtract, jsResult, contentResult, jsCalls>>
simVars == <<simCaller, iterations, scrollLog, simOutcome, behaviourOutcome>>
poolVars == <<scrapers, listing_page>>
vars == <<config, pc, browser, simPage, navVars, listVars, runVars, extractVars, phases, parseVars, contentVars, simVars, poolVars>>

\* ------------------------------------------------------------------------
\* Strings
\* ------------------------------------------------------------------------
\* Python's None where a string is expected: a sequence no string equals
None == <<"None">>

\* Python's None where an Article is expected
NoArticle == [article_id |-> None, title |-> None, article_url |-> None, content |-> None]

\* 'https://www.techinasia.com' (parser.py:98)
SiteOrigin == <<"h", "t", "t", "p", "s", ":", "/", "/", "w", "w", "w", ".", "t", "e", "c", "h", "i", "n", "a", "s", "i", "a", ".", "c", "o", "m">>

\* ScraperConfig.base_url default (models.py:45)
DefaultBaseUrl == SiteOrigin \o <<"/", "n", "e", "w", "s">>

\* ScraperConfig.timeout default, milliseconds (models.py:42)
DefaultTimeout == 20000

\* a category slug (models.py:47)
Category == <<"a", "i">>

UpperCase == <<"A", "B", "C", "D", "E", "F", "G", "H", "I", "J", "K", "L", "M", "N", "O", "P", "Q", "R", "S", "T", "U", "V", "W", "X", "Y", "Z">>
LowerCase == <<"a", "b", "c", "d", "e", "f", "g", "h", "i", "j", "k", "l", "m", "n", "o", "p", "q", "r", "s", "t", "u", "v", "w", "x", "y", "z">>

\* a local variable that has not been assigned yet
Unbound == -1

\* str.startswith
StartsWith(s, p) == Len(s) >= Len(p) /\ SubSeq(s, 1, Len(p)) = p

\* needle in haystack (Python "in" on strings)
Contains(s, p) == \E i \in 0..(Len(s) - Len(p)) : SubSeq(s, i + 1, i + Len(p)) = p

\* str.strip() is non-empty: some character is not whitespace
StripNonEmpty(s) == \E i \in 1..Len(s) : s[i] # " "

\* str.isspace of one character
IsSpace(c) == c \in {" ", "\n", "\t"}

\* str.strip()
Strip(s) ==
    IF \A i \in 1..Len(s) : IsSpace(s[i]) THEN <<>>
    ELSE LET first == CHOOSE i \in 1..Len(s) : ~IsSpace(s[i]) /\ \A j \in 1..(i - 1) : IsSpace(s[j])
             last == CHOOSE i \in 1..Len(s) : ~IsSpace(s[i]) /\ \A j \in (i + 1)..Len(s) : IsSpace(s[j])
         IN  SubSeq(s, first, last)

\* str.lower() on ASCII letters
ToLower(s) ==
    [i \in 1..Len(s) |->
        IF \E k \in 1..Len(UpperCase) : UpperCase[k] = s[i]
        THEN LowerCase[CHOOSE k \in 1..Len(UpperCase) : UpperCase[k] = s[i]]
        ELSE s[i]]

\* index of the last "/" of s, 0 when there is none
LastSlash(s) ==
    IF \E i \in 1..Len(s) : s[i] = "/"
    THEN CHOOSE i \in 1..Len(s) : s[i] = "/" /\ \A j \in (i + 1)..Len(s) : s[j] # "/"
    ELSE 0

\* index of the first "/" of s at or after position from, Len(s)+1 when none
FirstSlashFrom(s, from) ==
    IF \E i \in from..Len(s) : s[i] = "/"
    THEN CHOOSE i \in from..Len(s) : s[i] = "/" /\ \A j \in from..(i - 1) : s[j] # "/"
    ELSE Len(s) + 1

\* ------------------------------------------------------------------------
\* ArticleParser (parser.py)
\* ------------------------------------------------------------------------
\* An article element is modelled by what the parser reads from it:
\*   kind           how the listing selectors see it: "post-card" (article
\*                  with class post-card), "article" (any other article
\*                  element) or "div" (a div whose class hints at a card)
\*   contentDiv     whether it holds a div that parse_article takes as the
\*                  content container; without one the element is its own
\*                  container
\*   links          the href values of the anchors of the content container
\*                  that carry an href, in document order
\*   elementLinks   the same for the anchors of the element outside the
\*                  content container
\*   pageLinks      the same for the anchors of the page outside the element
\*                  that the parent of the element or an enclosing article
\*                  holds
\*   heading        the text of the h3 of the container, or None
\*   linkText       the text of the first anchor of the container
\*   sourceName     the text of span.post-source-name, or None
\*   sourceHref     the href of a.post-source, or None
\*   spans          the texts of the span elements, all of them inside the
\*                  content container
\*   imgSrc         the src of the first img that has one, or None
\*   styleUrl       the url of the first background-image style, or None
\*   timeText       the text of the time element, or None without one
\*   datetime       its datetime attribute, or None
\*   categoryLinks  the texts of the a.category-link anchors
\*   tagLinks       the texts of the a.tag-link anchors
\* The record of an element names kind, links, elementLinks, heading and
\* linkText; any other of these is named only when the element has it.
MkCard(k, l, pl, h, lt) == [kind |-> k, links |-> l, elementLinks |-> pl, heading |-> h, linkText |-> lt]

\* what the parser reads for f from an element: d when the element has no f
Attr(card, f, d) == IF f \in DOMAIN card THEN card[f] ELSE d

SchemeHttp == <<"h", "t", "t", "p">>
SchemeSep == <<":", "/", "/">>
NotAvailable == <<"N", "/", "A">>

\* re.search(r'/([^/]+)$', href): the text after the last "/" when there is
\* a "/" and something follows it (parser.py:101)
PathTailMatches(href) == LastSlash(href) > 0 /\ LastSlash(href) < Len(href)

\* href.split('/')[-1] (parser.py:102)
LastSplit(href) == SubSeq(href, LastSlash(href) + 1, Len(href))

\* where "https?://" ends when it starts at position i of url, 0 otherwise
SchemeEnd(url, i) ==
    LET rest == SubSeq(url, i, Len(url)) IN
    IF StartsWith(rest, SchemeHttp \o SchemeSep) THEN i + 6
    ELSE IF StartsWith(rest, SchemeHttp \o <<"s">> \o SchemeSep) THEN i + 7
    ELSE 0

\* the group of r'https?://(?:www\.)?([^/]+)' when the match starts at i:
\* the optional "www." is taken only if a non-slash character follows it
DomainGroupAt(url, i) ==
    LET from == SchemeEnd(url, i) + 1
        rest == SubSeq(url, from, Len(url))
        skip == IF StartsWith(rest, <<"w", "w", "w", ".">>) /\ Len(rest) > 4 /\ rest[5] # "/" THEN 4 ELSE 0
        start == from + skip
    IN  SubSeq(url, start, FirstSlashFrom(url, start) - 1)

DomainMatchesAt(url, i) == SchemeEnd(url, i) # 0 /\ DomainGroupAt(url, i) # <<>>

\* re.search(r'https?://(?:www\.)?([^/]+)', article_url).group(1), or None
\* (parser.py:106-107)
DomainOf(url) ==
    IF \E i \in 1..Len(url) : DomainMatchesAt(url, i)
    THEN DomainGroupAt(url, CHOOSE i \in 1..Len(url) :
            DomainMatchesAt(url, i) /\ \A j \in 1..(i - 1) : ~DomainMatchesAt(url, j))
    ELSE None

\* article_url of a usable href (parser.py:98)
ArticleUrlOf(href) == IF StartsWith(href, SchemeHttp) THEN href ELSE SiteOrigin \o href

\* article_id of a usable href (parser.py:101-107)
ArticleIdOf(href) ==
    LET found == IF PathTailMatches(href)
                 THEN SubSeq(href, LastSlash(href) + 1, Len(href))
                 ELSE LastSplit(href)
    IN  IF found # <<>> THEN found ELSE DomainOf(ArticleUrlOf(href))

\* "if href and href.strip()" (parser.py:97)
UsableHref(href) == href # <<>> /\ StripNonEmpty(href)

\* the anchors searched (parser.py:81-91): those of the container; when it
\* has none, those of its parent, which is the element when the container is
\* a div of it and the surrounding page when the container is the element
\* itself; when there are still none, those of the article the container
\* lies in
ArticleLinks(card) ==
    IF card.links # <<>> THEN card.links
    ELSE IF Attr(card, "contentDiv", TRUE) /\ card.elementLinks # <<>> THEN card.elementLinks
    ELSE IF Attr(card, "contentDiv", TRUE) /\ card.kind # "div" THEN <<>>
    ELSE Attr(card, "pageLinks", <<>>)

\* ArticleParser._extract_article_id_and_url (parser.py:77-122)
_extract_article_id_and_url(card) ==
    LET links == ArticleLinks(card)
        usable == {i \in 1..Len(links) : UsableHref(links[i])}
    IN  IF usable = {} THEN <<None, None>>
        ELSE LET first == CHOOSE i \in usable : \A j \in usable : i <= j
             IN  <<ArticleIdOf(links[first]), ArticleUrlOf(links[first])>>

\* ArticleParser._extract_title (parser.py:124-148)
_extract_title(card) ==
    IF card.heading # None THEN card.heading
    ELSE IF card.links # <<>> THEN card.linkText
    ELSE None

\* ArticleParser._extract_source_info (parser.py:150-191); without a
\* span.post-source-name the source is the first span whose text is non-empty
\* and shorter than 30 characters once stripped
_extract_source_info(card) ==
    LET spans == Attr(card, "spans", <<>>)
        short == {i \in 1..Len(spans) : spans[i] # <<>> /\ Len(Strip(spans[i])) < 30}
        source == IF Attr(card, "sourceName", None) # None THEN Strip(Attr(card, "sourceName", None))
                  ELSE IF short # {} THEN Strip(spans[CHOOSE i \in short : \A j \in short : i <= j])
                  ELSE None
        href == IF Attr(card, "sourceHref", None) # None THEN Attr(card, "sourceHref", None)
                ELSE IF Len(card.links) > 1 THEN card.links[2]
                ELSE None
        source_url == IF href # None /\ href # <<>> /\ ~StartsWith(href, SchemeHttp)
                      THEN SiteOrigin \o href
                      ELSE href
    IN  <<source, source_url>>

\* ArticleParser._extract_image_url (parser.py:193-226)
_extract_image_url(card) ==
    IF Attr(card, "imgSrc", None) # None /\ Attr(card, "imgSrc", None) # <<>> THEN Attr(card, "imgSrc", None)
    ELSE Attr(card, "styleUrl", None)

\* re.search(r'(ago|hour|day|week|month|year|yesterday|today)', text,
\* re.IGNORECASE) (parser.py:242)
HasRecency(text) ==
    \E w \in { <<"a", "g", "o">>, <<"h", "o", "u", "r">>, <<"d", "a", "y">>, <<"w", "e", "e", "k">>,
               <<"m", "o", "n", "t", "h">>, <<"y", "e", "a", "r">>,
               <<"y", "e", "s", "t", "e", "r", "d", "a", "y">>, <<"t", "o", "d", "a", "y">> } :
        Contains(ToLower(text), w)

\* a datetime attribute dateutil can read, and its strftime("%I:%M %p at %b
\* %d, %Y") (parser.py:251-252, tests/test_parser.py:30)
IsoSample == <<"2", "0", "2", "3", "-", "0", "1", "-", "0", "1", "T", "1", "2", ":", "0", "0", ":", "0", "0", "Z">>

\* posted_time of a time element (parser.py:248-259): None without a
\* datetime attribute and None when dateutil rejects it
PostedTimeOf(datetime) ==
    IF datetime = None \/ datetime = <<>> THEN None
    ELSE IF datetime = IsoSample
    THEN <<"1", "2", ":", "0", "0", " ", "P", "M", " ", "a", "t", " ", "J", "a", "n", " ", "0", "1", ",", " ", "2", "0", "2", "3">>
    ELSE None

\* ArticleParser._extract_time_info (parser.py:228-270)
_extract_time_info(card) ==
    IF Attr(card, "timeText", None) = None
    THEN LET spans == Attr(card, "spans", <<>>)
             recent == {i \in 1..Len(spans) : HasRecency(Strip(spans[i]))}
         IN  IF recent # {}
             THEN <<None, Strip(spans[CHOOSE i \in recent : \A j \in recent : i <= j])>>
             ELSE <<None, NotAvailable>>
    ELSE <<PostedTimeOf(Attr(card, "datetime", None)), Strip(Attr(card, "timeText", None))>>

\* [link.text.strip() for link in links if link.text.strip()]
\* (parser.py:282, 291)
RECURSIVE StrippedTexts(_)
StrippedTexts(texts) ==
    IF texts = <<>> THEN <<>>
    ELSE IF Strip(Head(texts)) # <<>> THEN <<Strip(Head(texts))>> \o StrippedTexts(Tail(texts))
    ELSE StrippedTexts(Tail(texts))

\* variant: no category is taken from the configuration
_extract_categories_and_tags_no_default(card) ==
    <<StrippedTexts(Attr(card, "categoryLinks", <<>>)), StrippedTexts(Attr(card, "tagLinks", <<>>))>>

\* ArticleParser._extract_categories_and_tags (parser.py:272-302)
_extract_categories_and_tags(card) ==
    LET found == StrippedTexts(Attr(card, "categoryLinks", <<>>))
        categories == IF found = <<>> /\ config.category # <<>> THEN <<config.category>> ELSE found
    IN  <<categories, StrippedTexts(Attr(card, "tagLinks", <<>>))>>

\* Article.validate_urls (models.py:25-30)
validate_urls(v) == IF v = NotAvailable THEN None ELSE v

\* datetime.now().strftime('%Y-%m-%d %H:%M:%S') (models.py:22) of the clock
\* value t, counted in seconds from midnight of a day
Strftime(t) ==
    <<"2", "0", "2", "5", "-", "0", "1", "-", "0", "1", " ", "0", "0", ":", "0", "0", ":">>
    \o LET Digits == <<"0", "1", "2", "3", "4", "5", "6", "7", "8", "9">>
       IN  <<Digits[((t \div 10) % 6) + 1], Digits[(t % 10) + 1]>>

\* the value field f gets from the keyword arguments data: its default when
\* the constructor was not given it (models.py:11-22)
ArticleField(data, f) ==
    IF f \notin DOMAIN data
    THEN CASE f \in {"title", "relative_time"} -> NotAvailable
           [] f \in {"categories", "tags"} -> <<>>
           [] f = "scraped_at" -> Strftime(now)
           [] OTHER -> None
    ELSE IF f \in {"article_url", "source_url", "image_url"} THEN validate_urls(data[f])
    ELSE data[f]

\* the fields declared str reject None (models.py:12, 18, 22)
ArticleValid(data) == \A f \in {"title", "relative_time", "scraped_at"} \cap DOMAIN data : data[f] # None

\* Article(**data) for keyword arguments that pass validation (models.py:9-30)
Article(data) ==
    [article_id |-> ArticleField(data, "article_id"), title |-> ArticleField(data, "title"),
     article_url |-> ArticleField(data, "article_url"), source |-> ArticleField(data, "source"),
     source_url |-> ArticleField(data, "source_url"), image_url |-> ArticleField(data, "image_url"),
     posted_time |-> ArticleField(data, "posted_time"),
     relative_time |-> ArticleField(data, "relative_time"),
     categories |-> ArticleField(data, "categories"), tags |-> ArticleField(data, "tags"),
     content |-> ArticleField(data, "content"), scraped_at |-> ArticleField(data, "scraped_at")]

\* variant: only the url is required
RequiredFound_url_only(idurl) == idurl[2] # None /\ idurl[2] # <<>>

\* "if not article_id or not article_url: return None" negated (parser.py:36)
RequiredFound(idurl) ==
    /\ idurl[1] # None /\ idurl[1] # <<>>
    /\ idurl[2] # None /\ idurl[2] # <<>>

\* the try block of parse_article (parser.py:21-58): what it returns, or the
\* exception it throws
parse_article_try(card) ==
    LET idurl == _extract_article_id_and_url(card)
        source == _extract_source_info(card)
        times == _extract_time_info(card)
        taxonomy == _extract_categories_and_tags(card)
        data == [article_id |-> idurl[1], title |-> _extract_title(card), article_url |-> idurl[2],
                 source |-> source[1], source_url |-> source[2],
                 image_url |-> _extract_image_url(card),
                 posted_time |-> times[1], relative_time |-> times[2],
                 categories |-> taxonomy[1], tags |-> taxonomy[2]]
    IN  IF ~RequiredFound(idurl) THEN [raised |-> FALSE, value |-> NoArticle]
        ELSE IF ~ArticleValid(data) THEN [raised |-> TRUE, value |-> NoArticle]
        ELSE [raised |-> FALSE, value |-> Article(data)]

\* variant: the handlers let the exception through
parse_article_except_reraise(outcome) == outcome

\* the except clauses of parse_article (parser.py:60-75)
parse_article_except(outcome) == [raised |-> FALSE, value |-> NoArticle]

\* ArticleParser.parse_article (parser.py:19-75) as its caller sees it
parse_article_call(card) ==
    LET outcome == parse_article_try(card)
    IN  IF outcome.raised THEN parse_article_except(outcome) ELSE outcome

\* the value parse_article returns
parse_article(card) == parse_article_call(card).value

\* ArticleParser.is_valid_article (parser.py:304-309)
is_valid_article(article) == article.article_url # None /\ article.article_url # <<>>

\* ------------------------------------------------------------------------
\* Exceptions a page handle can throw from goto
\* ------------------------------------------------------------------------
MsgConnectionClosed == <<"C", "o", "n", "n", "e", "c", "t", "i", "o", "n", " ", "c", "l", "o", "s", "e", "d">>
MsgTargetClosed == <<"T", "a", "r", "g", "e", "t", " ", "c", "l", "o", "s", "e", "d">>

NoError == [type |-> "none", msg |-> <<>>]
NoPageError == [type |-> "AttributeError", msg |-> <<"N", "o", "n", "e", "T", "y", "p", "e">>]

\* what self.page.goto can throw: a handle that is None throws
\* AttributeError; a live one a timeout, a closed connection, a closed
\* target or another navigation error
GotoErrors(p) ==
    IF p = 0 THEN {NoPageError}
    ELSE { [type |-> "PlaywrightTimeoutError", msg |-> <<"T", "i", "m", "e", "o", "u", "t">>],
           [type |-> "Error", msg |-> MsgConnectionClosed],
           [type |-> "Error", msg |-> MsgTargetClosed],
           [type |-> "Error", msg |-> <<"N", "a", "v", "i", "g", "a", "t", "i", "o", "n", " ", "f", "a", "i", "l", "e", "d">>] }


\* ------------------------------------------------------------------------
\* BrowserManager.navigate_to_url (browser.py:68-118)
\* ------------------------------------------------------------------------
\* entering the call: the for loop starts at attempt 0
navigate_to_url_enter(url) ==
    /\ navpc' = "goto"
    /\ navUrl' = url
    /\ attempt' = 0
    /\ lastErr' = NoError
    /\ navResult' = FALSE
    /\ gotoCalls' = <<>>
    /\ waits' = <<>>
    /\ recreations' = <<>>

\* variant: the retry test stops one attempt early
HasRetryLeft_early(a) == a < config.retry_count - 2

\* variant: the retry test also holds for the final attempt
HasRetryLeft_late(a) == a < config.retry_count

\* "if attempt < self.config.retry_count - 1" (browser.py:78, 93)
HasRetryLeft(a) == a < config.retry_count - 1

\* base of the deterministic part of wait_time, base ** attempt
\* (browser.py:80, 95)
BackoffBase(e) == IF e.type = "PlaywrightTimeoutError" THEN 2 ELSE 3

\* variant: the handler looks for the wrong message
IsConnectionError_wrong_message(e) ==
    /\ e.type # "PlaywrightTimeoutError"
    /\ Contains(e.msg, MsgTargetClosed)

\* "Connection closed" in str(e), reached only from the generic handler
\* (browser.py:91, 100)
IsConnectionError(e) ==
    /\ e.type # "PlaywrightTimeoutError"
    /\ Contains(e.msg, MsgConnectionClosed)

\* the next iteration of "for attempt in range(self.config.retry_count)";
\* an exhausted range falls through to the final "return False"
\* (browser.py:70, 118)
NextAttempt ==
    IF attempt + 1 < config.retry_count
    THEN /\ attempt' = attempt + 1
         /\ navpc' = "goto"
         /\ UNCHANGED navResult
    ELSE /\ navpc' = "done"
         /\ navResult' = FALSE
         /\ UNCHANGED attempt

\* one page.goto attempt (browser.py:71-78, 83-93, 110-117)
navigate_to_url_goto ==
    /\ navpc = "goto"
    /\ \/ /\ page # 0
          /\ gotoCalls' = Append(gotoCalls, [url |-> navUrl, timeout |-> config.timeout, page |-> page, attempt |-> attempt, error |-> NoError])
          /\ navpc' = "done"
          /\ navResult' = TRUE
          /\ UNCHANGED lastErr
       \/ \E e \in GotoErrors(page) :
            /\ gotoCalls' = Append(gotoCalls, [url |-> navUrl, timeout |-> config.timeout, page |-> page, attempt |-> attempt, error |-> e])
            /\ lastErr' = e
            /\ IF HasRetryLeft(attempt)
               THEN navpc' = "wait" /\ UNCHANGED navResult
               ELSE navpc' = "done" /\ navResult' = FALSE
    /\ UNCHANGED <<config, simVars, poolVars, parseVars, contentVars, pc, browser, simPage, page, pagesOpened, closedPages, navUrl, attempt, waits, recreations, listVars, runVars, extractVars, phases>>

\* the backoff sleep of a failed, non-final attempt (browser.py:79-82, 94-100)
navigate_to_url_wait ==
    /\ navpc = "wait"
    /\ waits' = Append(waits, [attempt |-> attempt, base |-> BackoffBase(lastErr), seconds |-> BackoffBase(lastErr) ^ attempt])
    /\ IF IsConnectionError(lastErr)
       THEN /\ navpc' = IF page # 0 THEN "close_page" ELSE "new_page"
            /\ UNCHANGED <<attempt, navResult>>
       ELSE NextAttempt
    /\ UNCHANGED <<config, simVars, poolVars, parseVars, contentVars, pc, browser, simPage, page, pagesOpened, closedPages, navUrl, lastErr, gotoCalls, recreations, listVars, runVars, extractVars, phases>>

\* variant: page.close() is awaited outside any try, so its failure leaves
\* the call
navigate_to_url_close_page_unguarded ==
    /\ navpc = "close_page"
    /\ \/ /\ closedPages' = closedPages \cup {page}
          /\ navpc' = "new_page"
          /\ UNCHANGED recreations
       \/ /\ recreations' = Append(recreations, [attempt |-> attempt, old |-> page, new |-> page, outcome |-> "close_failed"])
          /\ navpc' = "raised"
          /\ UNCHANGED closedPages
    /\ UNCHANGED <<config, simVars, poolVars, parseVars, contentVars, pc, browser, simPage, page, pagesOpened, navUrl, attempt, navResult, lastErr, gotoCalls, waits, listVars, runVars, extractVars, phases>>

\* "await self.page.close()" inside the recreation try; a failure is logged
\* and the loop goes on (browser.py:101-104, 108-109)
navigate_to_url_close_page ==
    /\ navpc = "close_page"
    /\ \/ /\ closedPages' = closedPages \cup {page}
          /\ navpc' = "new_page"
          /\ UNCHANGED <<attempt, navResult, recreations>>
       \/ /\ recreations' = Append(recreations, [attempt |-> attempt, old |-> page, new |-> page, outcome |-> "close_failed"])
          /\ UNCHANGED closedPages
          /\ NextAttempt
    /\ UNCHANGED <<config, simVars, poolVars, parseVars, contentVars, pc, browser, simPage, page, pagesOpened, navUrl, lastErr, gotoCalls, waits, listVars, runVars, extractVars, phases>>

\* "context = self.browser.contexts[0]; self.page = await context.new_page()";
\* a failure is logged and the loop goes on (browser.py:105-109)
navigate_to_url_new_page ==
    /\ navpc = "new_page"
    /\ \/ /\ browser = "open"
          /\ pagesOpened' = pagesOpened + 1
          /\ page' = pagesOpened + 1
          /\ recreations' = Append(recreations, [attempt |-> attempt, old |-> page, new |-> pagesOpened + 1, outcome |-> "recreated"])
       \/ /\ recreations' = Append(recreations, [attempt |-> attempt, old |-> page, new |-> page, outcome |-> "new_page_failed"])
          /\ UNCHANGED <<page, pagesOpened>>
    /\ NextAttempt
    /\ UNCHANGED <<config, simVars, poolVars, parseVars, contentVars, pc, browser, simPage, closedPages, navUrl, lastErr, gotoCalls, waits, listVars, runVars, extractVars, phases>>

NavNext ==
    \/ navigate_to_url_goto
    \/ navigate_to_url_wait
    \/ navigate_to_url_close_page
    \/ navigate_to_url_new_page

\* the caller has read the returned boolean: the frame of the call is gone
navigate_to_url_leave ==
    /\ navpc' = "idle"
    /\ navUrl' = <<>>
    /\ attempt' = 0
    /\ lastErr' = NoError
    /\ navResult' = FALSE
    /\ gotoCalls' = <<>>
    /\ waits' = <<>>
    /\ recreations' = <<>>

\* ------------------------------------------------------------------------
\* TechInAsiaScraper.scrape_article_list (main.py:43-103)
\* ------------------------------------------------------------------------
\* the article elements a page snapshot can hold
ListingCards ==
    { MkCard("post-card", <<<<"/", "a">>>>, <<>>, <<"T">>, <<"L">>),
      MkCard("post-card", <<<<"/", "b">>>>, <<>>, None, <<"L">>),
      MkCard("post-card", <<<<"/", "x", "/", "a">>>>, <<>>, <<"T">>, <<"L">>),
      MkCard("post-card", <<<<>>, <<"h", "t", "t", "p", "/">>>>, <<>>, <<"T">>, <<>>),
      MkCard("article", <<<<"/", "b">>>>, <<>>, <<"T">>, <<"L">>),
      MkCard("div", <<<<"/", "a", "/">>>>, <<>>, <<"T", " ", "L">>, <<"L">>) }

\* the documents page.content() can return
Snapshots == UNION {[1..n -> ListingCards] : n \in 0..MaxCards}

\* the elements of dom of one kind, in document order
RECURSIVE OfKind(_, _)
OfKind(dom, k) ==
    IF dom = <<>> THEN <<>>
    ELSE IF Head(dom).kind = k THEN <<Head(dom)>> \o OfKind(Tail(dom), k)
    ELSE OfKind(Tail(dom), k)

\* the selector cascade: post-card articles, else any article, else card-like
\* divs (main.py:63-75)
SelectArticleElements(dom) ==
    IF OfKind(dom, "post-card") # <<>> THEN OfKind(dom, "post-card")
    ELSE IF OfKind(dom, "article") # <<>> THEN OfKind(dom, "article")
    ELSE OfKind(dom, "div")

\* f"{self.config.base_url}?category={self.config.category}" (main.py:46)
ListingUrl == config.base_url \o <<"?", "c", "a", "t", "e", "g", "o", "r", "y", "=">> \o config.category

\* variant: the scroll bound is tested with <= instead of <
LoopContinues_one_more ==
    /\ scroll_count <= config.max_scrolls
    /\ Len(articles) < config.num_articles

\* the while condition (main.py:54)
LoopContinues ==
    /\ scroll_count < config.max_scrolls
    /\ Len(articles) < config.num_articles

\* variant: an id already seen is accepted again
IsNewArticle_no_dedup(article) ==
    /\ article # NoArticle
    /\ is_valid_article(article)

\* the acceptance test of a parsed card (main.py:81)
IsNewArticle(article) ==
    /\ article # NoArticle
    /\ is_valid_article(article)
    /\ article.article_id \notin processed_article_ids

\* variant: the quota test lets one more record in
QuotaReached_late(n) == n > config.num_articles

\* "if len(articles) >= self.config.num_articles" (main.py:85)
QuotaReached(n) == n >= config.num_articles

\* "return articles" (main.py:51, 95, 103)
scrape_article_list_return ==
    /\ listOutcome' = "returned"
    /\ pc' = IF listCaller = "direct" THEN "list_done" ELSE "scrape_listed"

\* the except block (main.py:96-103): it reads scroll_count before it
\* returns, which fails when the exception came before "scroll_count = 0"
scrape_article_list_except ==
    IF scroll_count = Unbound
    THEN /\ listOutcome' = "raised"
         /\ pc' = IF listCaller = "direct" THEN "list_done" ELSE "scrape_leave_raised"
    ELSE scrape_article_list_return

\* the call up to its first await (main.py:45-49); with no browser manager
\* the attribute access of line 49 throws
scrape_article_list_enter(caller) ==
    /\ listCaller' = caller
    /\ phases' = Append(phases, "list")
    /\ articles' = <<>>
    /\ scroll_count' = Unbound
    /\ article_elements' = <<>>
    /\ cardIdx' = 0
    /\ listNavigated' = "none"
    /\ scrollSims' = 0
    /\ snapshots' = 0
    /\ parses' = 0
    /\ IF browser_manager = "None"
       THEN /\ listOutcome' = "raised"
            /\ pc' = IF caller = "direct" THEN "list_done" ELSE "scrape_leave_raised"
            /\ UNCHANGED <<navpc, navUrl, attempt, lastErr, navResult, gotoCalls, waits, recreations>>
       ELSE /\ listOutcome' = "running"
            /\ pc' = "list_nav"
            /\ navigate_to_url_enter(ListingUrl)
    /\ UNCHANGED <<config, simVars, poolVars, parseVars, contentVars, browser, simPage, page, pagesOpened, closedPages, browser_manager, processed_article_ids, runVars, extractVars>>

\* variant: the boolean navigate_to_url returned is not looked at
NavigationSucceeded_ignored == TRUE

\* "if not success" (main.py:50)
NavigationSucceeded == navResult

\* the navigation has returned (main.py:49-53)
scrape_article_list_after_navigate ==
    /\ pc = "list_nav"
    /\ navpc = "done"
    /\ navigate_to_url_leave
    /\ listNavigated' = IF navResult THEN "ok" ELSE "failed"
    /\ IF NavigationSucceeded
       THEN /\ scroll_count' = 0
            /\ pc' = "list_loop"
            /\ UNCHANGED listOutcome
       ELSE /\ scrape_article_list_return
            /\ UNCHANGED scroll_count
    /\ UNCHANGED <<config, simVars, poolVars, parseVars, contentVars, browser, simPage, page, pagesOpened, closedPages, browser_manager, processed_article_ids, articles, article_elements, cardIdx, listCaller, scrollSims, snapshots, parses, runVars, extractVars, phases>>

\* the while test and the scroll simulation, which swallows its own errors
\* (main.py:54-56, human_behavior.py:17-45), or the final return (main.py:95)
scrape_article_list_scroll ==
    /\ pc = "list_loop"
    /\ IF LoopContinues
       THEN /\ scrollSims' = scrollSims + 1
            /\ pc' = "list_content"
            /\ UNCHANGED listOutcome
       ELSE /\ scrape_article_list_return
            /\ UNCHANGED scrollSims
    /\ UNCHANGED <<config, simVars, poolVars, parseVars, contentVars, browser, simPage, navVars, browser_manager, processed_article_ids, articles, scroll_count, article_elements, cardIdx, listCaller, listNavigated, snapshots, parses, runVars, extractVars, phases>>

\* the end of one iteration of the while body up to its sleep (main.py:89-90)
EndOfCards ==
    /\ scroll_count' = scroll_count + 1
    /\ pc' = "list_sleep"
    /\ cardIdx' = 0

\* the snapshot and the element selection (main.py:59-77); a page that throws
\* from content() lands in the except block
scrape_article_list_content ==
    /\ pc = "list_content"
    /\ snapshots' = snapshots + 1
    /\ \/ \E dom \in Snapshots :
            /\ article_elements' = SelectArticleElements(dom)
            /\ IF SelectArticleElements(dom) = <<>>
               THEN EndOfCards
               ELSE pc' = "list_cards" /\ cardIdx' = 1 /\ UNCHANGED scroll_count
            /\ UNCHANGED listOutcome
       \/ /\ scrape_article_list_except
          /\ UNCHANGED <<article_elements, cardIdx, scroll_count>>
    /\ UNCHANGED <<config, simVars, poolVars, parseVars, contentVars, browser, simPage, navVars, browser_manager, processed_article_ids, articles, listCaller, listNavigated, scrollSims, parses, runVars, extractVars, phases>>

\* one iteration of the for loop over the selected elements (main.py:79-87)
scrape_article_list_card ==
    /\ pc = "list_cards"
    /\ LET article == parse_article(article_elements[cardIdx])
           accepted == IsNewArticle(article)
       IN  /\ parses' = parses + 1
           /\ articles' = IF accepted THEN Append(articles, article) ELSE articles
           /\ processed_article_ids' = IF accepted THEN processed_article_ids \cup {article.article_id} ELSE processed_article_ids
           /\ IF (accepted /\ QuotaReached(Len(articles) + 1)) \/ cardIdx = Len(article_elements)
              THEN EndOfCards
              ELSE cardIdx' = cardIdx + 1 /\ UNCHANGED <<scroll_count, pc>>
    /\ UNCHANGED <<config, simVars, poolVars, parseVars, contentVars, browser, simPage, navVars, browser_manager, article_elements, listCaller, listOutcome, listNavigated, scrollSims, snapshots, runVars, extractVars, phases>>

\* the delay between scrolls (main.py:93)
scrape_article_list_sleep ==
    /\ pc = "list_sleep"
    /\ pc' = "list_loop"
    /\ UNCHANGED <<config, simVars, poolVars, parseVars, contentVars, browser, simPage, navVars, listVars, runVars, extractVars, phases>>

\* scrape_article_list awaited on a scraper outside scrape()
scrape_article_list_direct ==
    /\ pc = "idle"
    /\ scrape_article_list_enter("direct")

ListNext ==
    \/ scrape_article_list_after_navigate
    \/ scrape_article_list_scroll
    \/ scrape_article_list_content
    \/ scrape_article_list_card
    \/ scrape_article_list_sleep

\* ------------------------------------------------------------------------
\* ContentExtractor.extract_article_content (content_extractor.py:18-141)
\* ------------------------------------------------------------------------
\* title.lower().replace(' ', '-') (content_extractor.py:32)
SlugOfTitle(title) ==
    [i \in 1..Len(title) |->
        IF title[i] = " " THEN "-"
        ELSE IF \E k \in 1..Len(UpperCase) : UpperCase[k] = title[i]
             THEN LowerCase[CHOOSE k \in 1..Len(UpperCase) : UpperCase[k] = title[i]]
             ELSE title[i]]

\* the page the extractor opens first (content_extractor.py:25-40)
TiaArticleUrl(article) ==
    IF Contains(article.article_id, <<".">>) /\ ~Contains(article.article_id, <<"/">>)
    THEN config.base_url \o <<"/">> \o SlugOfTitle(article.title)
    ELSE IF StartsWith(article.article_id, SchemeHttp)
    THEN config.base_url \o <<"/">> \o LastSplit(article.article_id)
    ELSE config.base_url \o <<"/">> \o article.article_id

\* the fallback test (content_extractor.py:46)
HasFallbackUrl(article) ==
    /\ article.article_url # None
    /\ article.article_url # <<>>
    /\ StartsWith(article.article_url, SiteOrigin)

\* variant: the loop ends one article early
HasNextArticle_early(i) == i < Len(articles) - 1

\* the for loop has a further article after the i-th; the same test guards
\* the delay (main.py:108, 128)
HasNextArticle(i) == i < Len(articles)

\* variant: the dump leaves scraped_at out
model_dump_without_scraped_at(article) == [f \in (DOMAIN article) \ {"scraped_at"} |-> article[f]]

\* article.model_dump(): the dictionary of all the fields (main.py:118)
model_dump(article) == article

\* the record built from a listed record and its content: "article_data =
\* article.model_dump(); article_data['content'] = content;
\* Article(**article_data)" (main.py:118-120)
EnrichedArticle(article, content) ==
    LET article_data == [model_dump(article) EXCEPT !["content"] = content]
    IN  Article(article_data)

\* variant: a failed extraction ends the loop
RecordContent_stop_on_failure(content) ==
    /\ IF content # None /\ content # <<>>
       THEN /\ articles_with_content' = Append(articles_with_content, EnrichedArticle(articles[enrichIdx], content))
            /\ UNCHANGED incomplete_articles
            /\ pc' = IF HasNextArticle(enrichIdx) THEN "enrich_sleep" ELSE "scrape_enriched"
       ELSE /\ incomplete_articles' = incomplete_articles + 1
            /\ UNCHANGED articles_with_content
            /\ pc' = "scrape_enriched"

\* the rest of one loop iteration of scrape_article_contents once the
\* content is known (main.py:117-131)
RecordContent(content) ==
    /\ IF content # None /\ content # <<>>
       THEN /\ articles_with_content' = Append(articles_with_content, EnrichedArticle(articles[enrichIdx], content))
            /\ UNCHANGED incomplete_articles
       ELSE /\ incomplete_articles' = incomplete_articles + 1
            /\ UNCHANGED articles_with_content
    /\ pc' = IF HasNextArticle(enrichIdx) THEN "enrich_sleep" ELSE "scrape_enriched"

\* "return content" or "return None" (content_extractor.py:54, 114, 132,
\* 141): the value goes to the awaiting caller
extract_article_content_return(caller, content, at) ==
    /\ extractOutcome' = "returned"
    /\ extractResult' = content
    /\ extractRaisedAt' = at
    /\ IF caller = "loop"
       THEN RecordContent(content)
       ELSE /\ pc' = "extract_done"
            /\ UNCHANGED <<incomplete_articles, articles_with_content>>

\* variant: the handler lets the exception go on; in the loop it reaches the
\* handler of scrape_article_contents, which returns the partial list
\* (main.py:134-141)
extract_article_content_except_reraise(caller, at) ==
    /\ extractOutcome' = "raised"
    /\ extractRaisedAt' = at
    /\ pc' = IF caller = "loop" THEN "scrape_enriched" ELSE "extract_done"
    /\ UNCHANGED <<extractResult, incomplete_articles, articles_with_content>>

\* the handler around the whole body (content_extractor.py:134-141): the
\* step at threw
extract_article_content_except(caller, at) ==
    extract_article_content_return(caller, None, at)

\* the call up to its first await (content_extractor.py:18-44): the URL is
\* built from the article id; an id of None makes "'.' in article_id" throw,
\* and with no browser manager the attribute access of line 44 throws
extract_article_content_enter(caller, article) ==
    /\ extractCaller' = caller
    /\ extractArticle' = article
    /\ extractNavs' = <<>>
    /\ behaviourSims' = 0
    /\ extractCalls' = Append(extractCalls, article.article_id)
    /\ IF article.article_id = None
       THEN /\ extract_article_content_except(caller, "construct")
            /\ UNCHANGED <<navpc, navUrl, attempt, lastErr, navResult, gotoCalls, waits, recreations>>
       ELSE IF browser_manager = "None"
       THEN /\ extract_article_content_except(caller, "navigate")
            /\ UNCHANGED <<navpc, navUrl, attempt, lastErr, navResult, gotoCalls, waits, recreations>>
       ELSE /\ navigate_to_url_enter(TiaArticleUrl(article))
            /\ pc' = "extract_nav"
            /\ extractOutcome' = "running"
            /\ extractResult' = None
            /\ extractRaisedAt' = "none"
            /\ UNCHANGED <<incomplete_articles, articles_with_content>>
    /\ UNCHANGED <<config, simVars, poolVars, parseVars, contentVars, browser, simPage, page, pagesOpened, closedPages, listVars, playwright, acquired, released, total_articles, enrichIdx, csvSaves, jsonSaves, summaries, scrapeResult, exitPath, phases>>

\* the first navigation has returned (content_extractor.py:44-54)
extract_article_content_after_navigate ==
    /\ pc = "extract_nav"
    /\ navpc = "done"
    /\ extractNavs' = Append(extractNavs, [url |-> navUrl, ok |-> navResult])
    /\ IF navResult
       THEN /\ navigate_to_url_leave
            /\ pc' = "extract_page"
            /\ UNCHANGED <<extractOutcome, extractResult, extractRaisedAt, incomplete_articles, articles_with_content>>
       ELSE IF HasFallbackUrl(extractArticle)
       THEN /\ navigate_to_url_enter(extractArticle.article_url)
            /\ pc' = "extract_fallback"
            /\ UNCHANGED <<extractOutcome, extractResult, extractRaisedAt, incomplete_articles, articles_with_content>>
       ELSE /\ navigate_to_url_leave
            /\ extract_article_content_return(extractCaller, None, "none")
    /\ UNCHANGED <<config, simVars, poolVars, parseVars, contentVars, browser, simPage, page, pagesOpened, closedPages, listVars, playwright, acquired, released, total_articles, enrichIdx, csvSaves, jsonSaves, summaries, scrapeResult, exitPath, phases, extractCaller, extractArticle, behaviourSims, extractCalls>>

\* the fallback navigation has returned (content_extractor.py:48-50)
extract_article_content_after_fallback ==
    /\ pc = "extract_fallback"
    /\ navpc = "done"
    /\ extractNavs' = Append(extractNavs, [url |-> navUrl, ok |-> navResult])
    /\ navigate_to_url_leave
    /\ IF navResult
       THEN /\ pc' = "extract_page"
            /\ UNCHANGED <<extractOutcome, extractResult, extractRaisedAt, incomplete_articles, articles_with_content>>
       ELSE extract_article_content_return(extractCaller, None, "none")
    /\ UNCHANGED <<config, simVars, poolVars, parseVars, contentVars, browser, simPage, page, pagesOpened, closedPages, listVars, playwright, acquired, released, total_articles, enrichIdx, csvSaves, jsonSaves, summaries, scrapeResult, exitPath, phases, extractCaller, extractArticle, behaviourSims, extractCalls>>

\* "html_content = await self.browser_manager.page.content()"
\* (content_extractor.py:57): the snapshot is there or the call throws
extract_article_content_snapshot ==
    /\ pc = "extract_page"
    /\ \/ /\ pc' = "extract_simulate"
          /\ UNCHANGED <<extractOutcome, extractResult, extractRaisedAt, incomplete_articles, articles_with_content>>
       \/ extract_article_content_except(extractCaller, "snapshot")
    /\ UNCHANGED <<config, simVars, poolVars, parseVars, contentVars, browser, simPage, navVars, listVars, playwright, acquired, released, total_articles, enrichIdx, csvSaves, jsonSaves, summaries, scrapeResult, exitPath, phases, extractCaller, extractArticle, extractNavs, behaviourSims, extractCalls>>

\* simulate_user_behavior and the second snapshot (content_extractor.py:
\* 59-71): what they throw is caught on the spot, so the call goes on
\* either way
extract_article_content_simulate ==
    /\ pc = "extract_simulate"
    /\ behaviourSims' = behaviourSims + 1
    /\ pc' = "extract_select"
    /\ UNCHANGED <<config, simVars, poolVars, parseVars, contentVars, browser, simPage, navVars, listVars, runVars, phases, extractCaller, extractArticle, extractOutcome, extractResult, extractRaisedAt, extractNavs, extractCalls>>

\* the selector probing, the HTML extraction and the script fallback
\* (content_extractor.py:73-132): nothing, an empty text or a text, or a
\* throw outside the inner handlers
extract_article_content_select ==
    /\ pc = "extract_select"
    /\ \/ \E content \in {None, <<>>, <<"c">>} : extract_article_content_return(extractCaller, content, "none")
       \/ extract_article_content_except(extractCaller, "extract")
    /\ UNCHANGED <<config, simVars, poolVars, parseVars, contentVars, browser, simPage, navVars, listVars, playwright, acquired, released, total_articles, enrichIdx, csvSaves, jsonSaves, summaries, scrapeResult, exitPath, phases, extractCaller, extractArticle, extractNavs, behaviourSims, extractCalls>>

ExtractNext ==
    \/ extract_article_content_after_navigate
    \/ extract_article_content_after_fallback
    \/ extract_article_content_snapshot
    \/ extract_article_content_simulate
    \/ extract_article_content_select

\* ------------------------------------------------------------------------
\* ContentExtractor._extract_content_from_html and the script fallback
\* (content_extractor.py:116-132, 143-265)
\* ------------------------------------------------------------------------
\* A document is the sequence of its elements in document order; an element
\* is its tag, its classes, its id and its own text.  Every element is a
\* child of body: no element has an ancestor a selector could name.
\* A selector is the tag, the classes and the id it asks for ("" for any),
\* and whether it asks for an ancestor ("main article").
Sel(t, cs, i) == [tag |-> t, classes |-> cs, id |-> i, descendant |-> FALSE]

\* tia_selectors (content_extractor.py:197-209)
tia_selectors ==
    << Sel("div", {"jsx-3810287742", "jsx-430771670", "content"}, ""),
       Sel("div", {"content"}, ""),
       Sel("article", {"post-content"}, ""),
       Sel("div", {"post-content"}, ""),
       Sel("div", {"article-content"}, ""),
       Sel("div", {"article__content"}, ""),
       Sel("div", {"post__content"}, ""),
       Sel("div", {}, "content"),
       Sel("", {"content"}, ""),
       Sel("article", {}, ""),
       Sel("main", {}, "") >>

\* ScraperConfig.content_selectors default (models.py:87-104)
DefaultContentSelectors ==
    << Sel("div", {"content"}, "content"),
       Sel("div", {"jsx-3810287742", "jsx-430771670", "content"}, ""),
       Sel("article", {"content"}, ""),
       Sel("div", {"article-content"}, ""),
       Sel("div", {"article-body"}, ""),
       Sel("div", {"story-content"}, ""),
       Sel("div", {"story-body"}, ""),
       Sel("div", {"post-content"}, ""),
       Sel("div", {"entry-content"}, ""),
       [Sel("article", {}, "") EXCEPT !.descendant = TRUE],
       [Sel("", {"content"}, "") EXCEPT !.descendant = TRUE],
       [Sel("", {"content"}, "") EXCEPT !.descendant = TRUE],
       Sel("", {"article__body"}, ""),
       Sel("", {"article__content"}, ""),
       Sel("", {"post__content"}, ""),
       Sel("", {"post-body"}, "") >>

\* whether element el is matched by selector sel
Matches(el, sel) ==
    /\ ~sel.descendant
    /\ sel.tag = "" \/ el.tag = sel.tag
    /\ sel.classes \subseteq el.classes
    /\ sel.id = "" \/ el.id = sel.id

\* soup.select_one(selector): the index of the first element matched, 0 when
\* there is none
select_one(doc, sel) ==
    LET hits == {i \in 1..Len(doc) : Matches(doc[i], sel)}
    IN  IF hits = {} THEN 0 ELSE CHOOSE i \in hits : \A j \in hits : i <= j

\* the text a selector yields: get_text(strip=True) of the element selected,
\* nothing without one (content_extractor.py:213-215, 226-228)
SelectedText(doc, sel) ==
    IF select_one(doc, sel) = 0 THEN <<>> ELSE Strip(doc[select_one(doc, sel)].text)

\* the first selector of a list that yields a non-empty text, 0 when none does
FirstYielding(doc, selectors) ==
    LET yielding == {k \in 1..Len(selectors) : SelectedText(doc, selectors[k]) # <<>>}
    IN  IF yielding = {} THEN 0 ELSE CHOOSE k \in yielding : \A j \in yielding : k <= j

\* [p.get_text(strip=True) for p in soup.find_all('p') if p.get_text(strip=True)]
\* (content_extractor.py:238-240)
RECURSIVE ParagraphTexts(_)
ParagraphTexts(doc) ==
    IF doc = <<>> THEN <<>>
    ELSE IF Head(doc).tag = "p" /\ Strip(Head(doc).text) # <<>>
         THEN <<Strip(Head(doc).text)>> \o ParagraphTexts(Tail(doc))
         ELSE ParagraphTexts(Tail(doc))

\* ' '.join(texts)
RECURSIVE JoinSpace(_)
JoinSpace(texts) ==
    IF texts = <<>> THEN <<>>
    ELSE IF Len(texts) = 1 THEN Head(texts)
    ELSE Head(texts) \o <<" ">> \o JoinSpace(Tail(texts))

\* s.replace(old, ""), one occurrence at a time from the left
RECURSIVE Remove(_, _)
Remove(s, old) ==
    LET starts == {i \in 1..(Len(s) - Len(old) + 1) : SubSeq(s, i, i + Len(old) - 1) = old}
        at == IF starts = {} THEN 0 ELSE CHOOSE i \in starts : \A j \in starts : i <= j
    IN  IF at = 0 THEN s
        ELSE SubSeq(s, 1, at - 1) \o Remove(SubSeq(s, at + Len(old), Len(s)), old)

\* s.split(): the maximal runs of non-whitespace characters, one at a time
\* from the left
RECURSIVE SplitWords(_)
SplitWords(s) ==
    LET chars == {i \in 1..Len(s) : ~IsSpace(s[i])}
    IN  IF chars = {} THEN <<>>
        ELSE LET first == CHOOSE i \in chars : \A j \in chars : i <= j
                 spaces == {i \in (first + 1)..Len(s) : IsSpace(s[i])}
                 end == IF spaces = {} THEN Len(s) + 1
                        ELSE CHOOSE i \in spaces : \A j \in spaces : i <= j
             IN  <<SubSeq(s, first, end - 1)>> \o SplitWords(SubSeq(s, end, Len(s)))

\* footer_texts (content_extractor.py:248-253); the copyright sign is one
\* character, written "(c)"
footer_texts ==
    << <<"C", "o", "p", "y", "r", "i", "g", "h", "t", " ", "(c)", " ", "2", "0", "2", "5", " ", "T", "e", "c", "h", " ", "i", "n", " ", "A", "s", "i", "a", ".", " ", "A", "l", "l", " ", "R", "i", "g", "h", "t", "s", " ", "R", "e", "s", "e", "r", "v", "e", "d", ".">>,
       <<"A", " ", "m", "e", "m", "b", "e", "r", " ", "o", "f", "T", "h", "e", " ", "B", "u", "s", "i", "n", "e", "s", "s", " ", "T", "i", "m", "e", "s", ".">>,
       <<"I", "f", " ", "y", "o", "u", "'", "r", "e", " ", "s", "e", "e", "i", "n", "g", " ", "t", "h", "i", "s", " ", "m", "e", "s", "s", "a", "g", "e", ",", " ", "t", "h", "a", "t", " ", "m", "e", "a", "n", "s", "J", "a", "v", "a", "S", "c", "r", "i", "p", "t", " ", "h", "a", "s", " ", "b", "e", "e", "n", " ", "d", "i", "s", "a", "b", "l", "e", "d", " ", "o", "n", " ", "y", "o", "u", "r", " ", "b", "r", "o", "w", "s", "e", "r", ".">>,
       <<"P", "l", "e", "a", "s", "e", " ", "e", "n", "a", "b", "l", "e", " ", "J", "a", "v", "a", "S", "c", "r", "i", "p", "t">> >>

\* the clean-up of a non-empty text (content_extractor.py:255-259)
CleanContent(text) ==
    JoinSpace(SplitWords(
        Remove(Remove(Remove(Remove(text, footer_texts[1]), footer_texts[2]), footer_texts[3]), footer_texts[4])))

\* variant: the configured selectors are tried before the site's own
RawContent_configured_first(doc) ==
    IF FirstYielding(doc, config.content_selectors) # 0
    THEN [text |-> SelectedText(doc, config.content_selectors[FirstYielding(doc, config.content_selectors)]),
          strategy |-> "configured"]
    ELSE IF FirstYielding(doc, tia_selectors) # 0
    THEN [text |-> SelectedText(doc, tia_selectors[FirstYielding(doc, tia_selectors)]), strategy |-> "site"]
    ELSE IF ParagraphTexts(doc) # <<>>
    THEN [text |-> JoinSpace(ParagraphTexts(doc)), strategy |-> "paragraphs"]
    ELSE [text |-> <<>>, strategy |-> "none"]

\* content_text before the clean-up, and the strategy that gave it
\* (content_extractor.py:211-244)
RawContent(doc) ==
    IF FirstYielding(doc, tia_selectors) # 0
    THEN [text |-> SelectedText(doc, tia_selectors[FirstYielding(doc, tia_selectors)]), strategy |-> "site"]
    ELSE IF FirstYielding(doc, config.content_selectors) # 0
    THEN [text |-> SelectedText(doc, config.content_selectors[FirstYielding(doc, config.content_selectors)]),
          strategy |-> "configured"]
    ELSE IF ParagraphTexts(doc) # <<>>
    THEN [text |-> JoinSpace(ParagraphTexts(doc)), strategy |-> "paragraphs"]
    ELSE [text |-> <<>>, strategy |-> "none"]

\* ContentExtractor._extract_content_from_html (content_extractor.py:188-274)
_extract_content_from_html(doc) ==
    LET raw == RawContent(doc)
    IN  IF raw.text # <<>>
        THEN [text |-> CleanContent(raw.text), strategy |-> raw.strategy]
        ELSE [text |-> None, strategy |-> "none"]

\* the length under which a content is taken for a summary
\* (content_extractor.py:120)
FallbackThreshold == 200

\* "if content and len(content) < 200" (content_extractor.py:120)
NeedsFallback(content) == content # None /\ content # <<>> /\ Len(content) < FallbackThreshold

\* "if js_content and len(js_content) > len(content)" (content_extractor.py:126)
BetterContent(js_content, content) ==
    js_content # None /\ js_content # <<>> /\ Len(js_content) > Len(content)

\* a text of n characters
Chars(n) == [i \in 1..n |-> "x"]

\* what _extract_content_with_js can return (content_extractor.py:143-186):
\* None when the script finds nothing or throws, else the text it found
JsContents == {None, <<"j">>, <<"j", "j", "j">>, Chars(FallbackThreshold)}

\* "content = self._extract_content_from_html(html_content, ...)" and the
\* test of its length (content_extractor.py:117-120)
extract_article_content_from_html ==
    /\ pc = "content_extract"
    /\ htmlExtract' = _extract_content_from_html(html_content)
    /\ pc' = IF NeedsFallback(htmlExtract'.text) THEN "content_js" ELSE "content_return"
    /\ UNCHANGED <<config, simVars, poolVars, browser, simPage, navVars, listVars, runVars, extractVars, phases, parseVars,
                   html_content, jsResult, contentResult, jsCalls>>

\* "js_content = await self._extract_content_with_js()" and the choice
\* between the two contents (content_extractor.py:124-132)
extract_article_content_with_js ==
    /\ pc = "content_js"
    /\ \E js_content \in JsContents :
          /\ jsResult' = js_content
          /\ contentResult' = IF BetterContent(js_content, htmlExtract.text)
                              THEN js_content
                              ELSE htmlExtract.text
    /\ jsCalls' = jsCalls + 1
    /\ pc' = "content_done"
    /\ UNCHANGED <<config, simVars, poolVars, browser, simPage, navVars, listVars, runVars, extractVars, phases, parseVars,
                   html_content, htmlExtract>>

\* "return content" without the script (content_extractor.py:120, 132)
extract_article_content_return_content ==
    /\ pc = "content_return"
    /\ contentResult' = htmlExtract.text
    /\ pc' = "content_done"
    /\ UNCHANGED <<config, simVars, poolVars, browser, simPage, navVars, listVars, runVars, extractVars, phases, parseVars,
                   html_content, htmlExtract, jsResult, jsCalls>>

NextContent ==
    \/ extract_article_content_from_html
    \/ extract_article_content_with_js
    \/ extract_article_content_return_content

\* ------------------------------------------------------------------------
\* TechInAsiaScraper.scrape_article_contents (main.py:105-141)
\* ------------------------------------------------------------------------
\* the loop reaches an article and awaits the extractor (main.py:108-112)
scrape_article_contents_extract ==
    /\ pc = "enrich_article"
    /\ navpc = "idle"
    /\ extract_article_content_enter("loop", articles[enrichIdx])

\* the delay between two articles (main.py:127-131)
scrape_article_contents_sleep ==
    /\ pc = "enrich_sleep"
    /\ enrichIdx' = enrichIdx + 1
    /\ pc' = "enrich_article"
    /\ UNCHANGED <<config, simVars, poolVars, parseVars, contentVars, browser, simPage, navVars, listVars, playwright, acquired, released, total_articles, incomplete_articles, articles_with_content, csvSaves, jsonSaves, summaries, scrapeResult, exitPath, phases, extractVars>>

EnrichNext ==
    \/ scrape_article_contents_extract
    \/ scrape_article_contents_sleep
    \/ ExtractNext

\* ------------------------------------------------------------------------
\* TechInAsiaScraper.scrape (main.py:143-205)
\* ------------------------------------------------------------------------
\* "async with async_playwright() as playwright" is entered (main.py:149);
\* when starting the driver fails there is nothing to release
scrape_enter ==
    /\ pc = "idle"
    /\ \/ /\ playwright' = "started"
          /\ acquired' = acquired + 1
          /\ pc' = "scrape_setup"
          /\ UNCHANGED <<scrapeResult, exitPath>>
       \/ /\ pc' = "scrape_done"
          /\ scrapeResult' = "empty"
          /\ exitPath' = "exception"
          /\ UNCHANGED <<playwright, acquired>>
    /\ UNCHANGED <<config, simVars, poolVars, parseVars, contentVars, browser, simPage, navVars, listVars, released, total_articles, incomplete_articles, articles_with_content, enrichIdx, csvSaves, jsonSaves, summaries, phases, extractVars>>

\* BrowserManager(self.config) and setup_browser (main.py:151-152,
\* browser.py:22-66): the launch fails, or the context or the page fails
\* after the launch, or everything is there; a failure is re-raised
scrape_setup_browser ==
    /\ pc = "scrape_setup"
    /\ browser_manager' = "set"
    /\ \/ /\ browser' = "None" /\ page' = 0 /\ simPage' = 0 /\ pagesOpened' = 0
          /\ pc' = "scrape_leave_raised"
          /\ UNCHANGED phases
       \/ /\ browser' = "open" /\ page' = 0 /\ simPage' = 0 /\ pagesOpened' = 0
          /\ pc' = "scrape_leave_raised"
          /\ UNCHANGED phases
       \/ /\ browser' = "open" /\ page' = 1 /\ simPage' = 1 /\ pagesOpened' = 1
          /\ pc' = "scrape_list"
          /\ phases' = Append(phases, "open")
    /\ UNCHANGED <<config, simVars, poolVars, parseVars, contentVars, closedPages, navpc, navUrl, attempt, lastErr, navResult, gotoCalls, waits, recreations, processed_article_ids, articles, scroll_count, article_elements, cardIdx, listCaller, listOutcome, listNavigated, scrollSims, snapshots, parses, runVars, extractVars>>

\* "articles = await self.scrape_article_list()" (main.py:155)
scrape_list ==
    /\ pc = "scrape_list"
    /\ scrape_article_list_enter("scrape")

\* variant: the storage collaborator is handed the listing even when it is
\* empty
scrape_after_list_store_always ==
    /\ pc = "scrape_listed"
    /\ total_articles' = Len(articles)
    /\ scroll_count' = Unbound
    /\ article_elements' = <<>>
    /\ cardIdx' = 0
    /\ scrollSims' = 0
    /\ snapshots' = 0
    /\ parses' = 0
    /\ IF articles = <<>>
       THEN /\ scrapeResult' = "empty"
            /\ exitPath' = "no_articles"
            /\ pc' = "scrape_leave_return"
            /\ csvSaves' = csvSaves + 1
            /\ jsonSaves' = jsonSaves + 1
            /\ phases' = Append(phases, "store")
            /\ UNCHANGED <<processed_article_ids, articles_with_content, enrichIdx>>
       ELSE /\ processed_article_ids' = {}
            /\ articles_with_content' = <<>>
            /\ enrichIdx' = 1
            /\ pc' = "enrich_article"
            /\ phases' = Append(phases, "enrich")
            /\ UNCHANGED <<scrapeResult, exitPath, csvSaves, jsonSaves>>
    /\ UNCHANGED <<config, simVars, poolVars, parseVars, contentVars, browser, simPage, navVars, browser_manager, articles, listCaller, listOutcome, listNavigated, playwright, acquired, released, incomplete_articles, summaries, extractVars>>

\* the listing has returned (main.py:156-167): its frame is gone; an empty
\* listing ends the run, otherwise the id set is reset and the enrichment
\* starts
scrape_after_list ==
    /\ pc = "scrape_listed"
    /\ total_articles' = Len(articles)
    /\ scroll_count' = Unbound
    /\ article_elements' = <<>>
    /\ cardIdx' = 0
    /\ scrollSims' = 0
    /\ snapshots' = 0
    /\ parses' = 0
    /\ IF articles = <<>>
       THEN /\ scrapeResult' = "empty"
            /\ exitPath' = "no_articles"
            /\ pc' = "scrape_leave_return"
            /\ UNCHANGED <<processed_article_ids, articles_with_content, enrichIdx, phases>>
       ELSE /\ processed_article_ids' = {}
            /\ articles_with_content' = <<>>
            /\ enrichIdx' = 1
            /\ pc' = "enrich_article"
            /\ phases' = Append(phases, "enrich")
            /\ UNCHANGED <<scrapeResult, exitPath>>
    /\ UNCHANGED <<config, simVars, poolVars, parseVars, contentVars, browser, simPage, navVars, browser_manager, articles, listCaller, listOutcome, listNavigated, playwright, acquired, released, incomplete_articles, csvSaves, jsonSaves, summaries, extractVars>>

\* the figures log_summary prints from its arguments (logger.py:199-202)
log_summary(total, processed_ids, incomplete) ==
    [total |-> total,
     valid |-> Cardinality(processed_ids),
     incomplete |-> incomplete,
     duplicate |-> total - Cardinality(processed_ids) - incomplete]

\* saving, the data frame and the summary (main.py:169-190); to_dataframe
\* gives an empty frame when it fails (storage.py:68-85)
scrape_store ==
    /\ pc = "scrape_enriched"
    /\ IF articles_with_content # <<>>
       THEN /\ csvSaves' = csvSaves + 1
            /\ jsonSaves' = jsonSaves + 1
            /\ phases' = Append(phases, "store")
            /\ scrapeResult' \in {"frame", "empty"}
       ELSE /\ scrapeResult' = "empty"
            /\ UNCHANGED <<csvSaves, jsonSaves, phases>>
    /\ summaries' = summaries + 1
    /\ exitPath' = "normal"
    /\ pc' = "scrape_leave_return"
    /\ UNCHANGED <<config, simVars, poolVars, parseVars, contentVars, browser, simPage, navVars, listVars, playwright, acquired, released, total_articles, incomplete_articles, articles_with_content, enrichIdx, extractVars>>

\* variant: the scope is only left on the paths that return
async_playwright_exit_on_return_only ==
    /\ pc \in {"scrape_leave_return", "scrape_leave_raised"}
    /\ IF pc = "scrape_leave_return"
       THEN /\ playwright' = "stopped"
            /\ released' = released + 1
            /\ browser' = IF browser = "open" THEN "closed" ELSE browser
            /\ phases' = Append(phases, "close")
            /\ UNCHANGED <<scrapeResult, exitPath>>
       ELSE /\ scrapeResult' = "empty"
            /\ exitPath' = "exception"
            /\ UNCHANGED <<playwright, released, browser, phases>>
    /\ pc' = "scrape_done"
    /\ UNCHANGED <<config, simVars, poolVars, parseVars, contentVars, simPage, navVars, listVars, acquired, total_articles, incomplete_articles, articles_with_content, enrichIdx, csvSaves, jsonSaves, summaries, extractVars>>

\* the block of "async with" is left (main.py:149), by a return or by an
\* exception: the driver is stopped and the browser it launched goes with
\* it; an exception then reaches the handler, which returns an empty frame
\* (main.py:192-205)
async_playwright_exit ==
    /\ pc \in {"scrape_leave_return", "scrape_leave_raised"}
    /\ playwright' = "stopped"
    /\ released' = released + 1
    /\ browser' = IF browser = "open" THEN "closed" ELSE browser
    /\ phases' = Append(phases, "close")
    /\ IF pc = "scrape_leave_raised"
       THEN /\ scrapeResult' = "empty"
            /\ exitPath' = "exception"
       ELSE UNCHANGED <<scrapeResult, exitPath>>
    /\ pc' = "scrape_done"
    /\ UNCHANGED <<config, simVars, poolVars, parseVars, contentVars, simPage, navVars, listVars, acquired, total_articles, incomplete_articles, articles_with_content, enrichIdx, csvSaves, jsonSaves, summaries, extractVars>>

ScrapeNext ==
    \/ scrape_enter
    \/ scrape_setup_browser
    \/ scrape_list
    \/ scrape_after_list
    \/ scrape_store
    \/ async_playwright_exit

\* ------------------------------------------------------------------------
\* A stand-alone navigate_to_url call on a BrowserManager
\* (tests/test_browser.py:86-123)
\* ------------------------------------------------------------------------
\* ScraperConfig (models.py:37-113); the validators keep num_articles,
\* max_scrolls and retry_count positive (models.py:115-119)
Configs(retries, scrolls, quota) ==
    [retry_count : 1..retries, timeout : {DefaultTimeout}, max_scrolls : 1..scrolls,
     num_articles : 1..quota, base_url : {DefaultBaseUrl}, category : {Category}]

\* TechInAsiaScraper.__init__ (main.py:24-38)
InitScraperState ==
    /\ processed_article_ids = {}
    /\ articles = <<>>
    /\ scroll_count = Unbound
    /\ article_elements = <<>>
    /\ cardIdx = 0
    /\ listCaller = "none"
    /\ listOutcome = "none"
    /\ listNavigated = "none"
    /\ scrollSims = 0
    /\ snapshots = 0
    /\ parses = 0
    /\ playwright = "none"
    /\ acquired = 0
    /\ released = 0
    /\ total_articles = 0
    /\ incomplete_articles = 0
    /\ articles_with_content = <<>>
    /\ enrichIdx = 0
    /\ csvSaves = 0
    /\ jsonSaves = 0
    /\ summaries = 0
    /\ scrapeResult = "none"
    /\ exitPath = "none"
    /\ phases = <<>>
    /\ extractCaller = "none"
    /\ extractArticle = NoArticle
    /\ extractOutcome = "none"
    /\ extractResult = None
    /\ extractRaisedAt = "none"
    /\ extractNavs = <<>>
    /\ behaviourSims = 0
    /\ extractCalls = <<>>

\* no element, no document: nothing was handed to the parser or to the
\* extractor on its own
InitParserIdle ==
    /\ now = 0
    /\ element = MkCard("none", <<>>, <<>>, None, <<>>)
    /\ parsed = NoArticle
    /\ parseRaised = FALSE
    /\ reparsed = NoArticle
    /\ enriched = NoArticle

InitExtractorIdle ==
    /\ html_content = <<>>
    /\ htmlExtract = [text |-> None, strategy |-> "none"]
    /\ jsResult = None
    /\ contentResult = None
    /\ jsCalls = 0

\* no simulator call of its own is running, and there is no second scraper
InitSimulatorIdle ==
    /\ simCaller = "none"
    /\ iterations = Unbound
    /\ scrollLog = <<>>
    /\ simOutcome = "none"
    /\ behaviourOutcome = "none"
    /\ scrapers = <<>>
    /\ listing_page = <<>>

\* BrowserManager.__init__ (browser.py:14-20): no navigation is running
InitNavigation ==
    /\ closedPages = {}
    /\ navpc = "idle"
    /\ navUrl = <<>>
    /\ attempt = 0
    /\ lastErr = NoError
    /\ navResult = FALSE
    /\ gotoCalls = <<>>
    /\ waits = <<>>
    /\ recreations = <<>>

\* BrowserManager.__init__ followed or not by setup_browser (browser.py:14-50)
InitNav ==
    /\ config \in Configs(MaxRetry, 1, 1)
    /\ pc = "harness"
    /\ \/ browser = "open" /\ page = 1 /\ simPage = 1 /\ pagesOpened = 1
       \/ browser = "None" /\ page = 0 /\ simPage = 0 /\ pagesOpened = 0
    /\ InitNavigation
    /\ browser_manager = "None"
    /\ InitScraperState
    /\ InitParserIdle
    /\ InitSimulatorIdle
    /\ InitExtractorIdle

HarnessCall ==
    /\ pc = "harness"
    /\ navpc = "idle"
    /\ navigate_to_url_enter(SiteOrigin \o <<"/", "t">>)
    /\ pc' = "harness_called"
    /\ UNCHANGED <<config, simVars, poolVars, parseVars, contentVars, browser, simPage, page, pagesOpened, closedPages, listVars, runVars, extractVars, phases>>

SpecNav == InitNav /\ [][HarnessCall \/ NavNext]_vars

\* ------------------------------------------------------------------------
\* scrape_article_list awaited on a scraper whose browser manager was set up
\* beforehand, or on a freshly constructed one
\* ------------------------------------------------------------------------
\* every limit of the configuration at its least value or at its bound
RunConfigs ==
    {c \in Configs(MaxRunRetry, MaxScrolls, MaxQuota) :
        /\ c.retry_count \in {1, MaxRunRetry}
        /\ c.max_scrolls \in {1, MaxScrolls}
        /\ c.num_articles \in {1, MaxQuota}}

InitList ==
    /\ config \in RunConfigs
    /\ pc = "idle"
    /\ InitNavigation
    /\ InitScraperState
    /\ \/ /\ browser_manager = "set"
          /\ browser = "open" /\ page = 1 /\ simPage = 1 /\ pagesOpened = 1
       \/ /\ browser_manager = "None"
          /\ browser = "None" /\ page = 0 /\ simPage = 0 /\ pagesOpened = 0
    /\ InitParserIdle
    /\ InitSimulatorIdle
    /\ InitExtractorIdle

SpecList == InitList /\ [][scrape_article_list_direct \/ NavNext \/ ListNext]_vars

\* ------------------------------------------------------------------------
\* extract_article_content awaited on a ContentExtractor of its own
\* (tests/test_content_extractor.py:17-41, 153-212)
\* ------------------------------------------------------------------------
\* the records handed to the call: a site article, the same without a URL,
\* one whose id is a domain, one whose id is a full URL, one without an id
ExtractArticles ==
    { [article_id |-> <<"a">>, title |-> <<"T">>, article_url |-> SiteOrigin \o <<"/", "a">>, content |-> None],
      [article_id |-> <<"a">>, title |-> <<"T">>, article_url |-> None, content |-> None],
      [article_id |-> <<"e", ".", "i", "o">>, title |-> <<"T", " ", "L">>, article_url |-> SchemeHttp \o <<":", "/", "/", "e", ".", "i", "o", "/">>, content |-> None],
      [article_id |-> SchemeHttp \o <<":", "/", "/", "e", "/", "x">>, title |-> <<"T">>, article_url |-> SiteOrigin \o <<"/", "x">>, content |-> None],
      [article_id |-> None, title |-> <<"T">>, article_url |-> SiteOrigin \o <<"/", "a">>, content |-> None] }

extract_article_content_direct ==
    /\ pc = "idle"
    /\ navpc = "idle"
    /\ \E article \in ExtractArticles : extract_article_content_enter("direct", article)

InitExtract ==
    /\ config \in Configs(MaxRunRetry, 1, 1)
    /\ pc = "idle"
    /\ InitNavigation
    /\ InitScraperState
    /\ \/ /\ browser_manager = "set"
          /\ browser = "open" /\ page = 1 /\ simPage = 1 /\ pagesOpened = 1
       \/ /\ browser_manager = "None"
          /\ browser = "None" /\ page = 0 /\ simPage = 0 /\ pagesOpened = 0
    /\ InitParserIdle
    /\ InitSimulatorIdle
    /\ InitExtractorIdle

SpecExtract == InitExtract /\ [][extract_article_content_direct \/ NavNext \/ ExtractNext]_vars

\* ------------------------------------------------------------------------
\* parse_article called on an element of its own, twice, and the record it
\* returned enriched (tests/test_parser.py:15-62, main.py:117-121)
\* ------------------------------------------------------------------------
\* largest clock value, in seconds
MaxClock == 2

\* a card with a valid anchor and a title and nothing else
PlainElement == MkCard("post-card", <<<<"/", "m", "y", "-", "p", "o", "s", "t">>>>, <<>>, <<"H", "e", "l", "l", "o">>, <<"H", "e", "l", "l", "o">>)

\* the elements handed to the parser; the first is the element of the tests'
\* sample_html (tests/test_parser.py:24-38)
ParseElements ==
    { [sourceName |-> <<"S", "r", "c">>, sourceHref |-> <<"/", "s">>, spans |-> <<<<"S", "r", "c">>>>,
       imgSrc |-> <<"h", "t", "t", "p", ":", "/", "/", "i">>,
       timeText |-> <<"1", " ", "d", "a", "y", " ", "a", "g", "o">>, datetime |-> IsoSample,
       categoryLinks |-> <<<<"A", "I">>>>, tagLinks |-> <<<<"M", "L">>>>]
         @@ MkCard("post-card", <<<<"/", "p">>, <<"/", "s">>>>, <<>>, <<"T">>, <<"T">>),
      PlainElement,
      \* a time element whose datetime dateutil rejects
      [timeText |-> <<" ", "2", "h", " ">>, datetime |-> <<"x">>] @@ PlainElement,
      \* no time element, a span that tells the age
      [spans |-> <<<<"B", "y", " ", "X">>, <<" ", "2", " ", "H", "o", "u", "r", "s", " ", "a", "g", "o">>>>]
         @@ PlainElement,
      \* taxonomy anchors without text
      [categoryLinks |-> <<<<" ">>>>, tagLinks |-> <<<<" ">>, <<"M", "L">>>>] @@ PlainElement,
      \* no container div and no anchor; the page around has one
      [contentDiv |-> FALSE, pageLinks |-> <<<<"/", "o", "t", "h", "e", "r">>>>]
         @@ MkCard("post-card", <<>>, <<>>, <<"T">>, <<>>),
      \* a container div and no anchor; the page around has one
      [pageLinks |-> <<<<"/", "o", "t", "h", "e", "r">>>>] @@ MkCard("post-card", <<>>, <<>>, <<"T">>, <<>>),
      \* a card-like div inside an article of the page that has an anchor
      [pageLinks |-> <<<<"/", "o">>>>] @@ MkCard("div", <<>>, <<>>, <<"T">>, <<>>),
      \* the anchor is outside the container, which has no heading
      MkCard("post-card", <<>>, <<<<"/", "a">>>>, None, <<>>),
      \* no heading: the title is the text of the first anchor
      MkCard("post-card", <<<<>>, <<"/", "b">>>>, <<>>, None, <<"L">>),
      \* the href ends with a slash
      MkCard("post-card", <<<<"/", "a", "/">>>>, <<>>, <<"T">>, <<"L">>),
      \* an absolute href with a path, and one without
      MkCard("post-card", <<<<"h", "t", "t", "p", "s", ":", "/", "/", "e", ".", "c", "o", "m", "/", "x", "/", "y">>>>, <<>>, <<"T">>, <<"L">>),
      MkCard("post-card", <<<<"h", "t", "t", "p", "s", ":", "/", "/", "w", "w", "w", ".", "e", ".", "c", "o", "m", "/">>>>, <<>>, <<"T">>, <<"L">>),
      \* an href no id can be taken from
      MkCard("post-card", <<<<"h", "t", "t", "p", "/">>>>, <<>>, <<"T">>, <<"L">>) }

InitParse ==
    /\ config \in Configs(1, 1, 1)
    /\ pc = "parse"
    /\ browser = "None" /\ page = 0 /\ simPage = 0 /\ pagesOpened = 0
    /\ InitNavigation
    /\ browser_manager = "None"
    /\ InitScraperState
    /\ InitExtractorIdle
    /\ InitSimulatorIdle
    /\ now = 0
    /\ element \in ParseElements
    /\ parsed = NoArticle
    /\ parseRaised = FALSE
    /\ reparsed = NoArticle
    /\ enriched = NoArticle

\* "article = self.parser.parse_article(self.article_element)"
\* (tests/test_parser.py:44)
parse_article_first ==
    /\ pc = "parse"
    /\ parsed' = parse_article_call(element).value
    /\ parseRaised' = parse_article_call(element).raised
    /\ pc' = "parsed"
    /\ UNCHANGED <<config, simVars, poolVars, browser, simPage, navVars, listVars, runVars, extractVars, phases, contentVars,
                   now, element, reparsed, enriched>>

\* the same call once more on the same element
parse_article_again ==
    /\ pc = "parsed"
    /\ reparsed' = parse_article(element)
    /\ pc' = "reparsed"
    /\ UNCHANGED <<config, simVars, poolVars, browser, simPage, navVars, listVars, runVars, extractVars, phases, contentVars,
                   now, element, parsed, parseRaised, enriched>>

\* the enrichment of the record parsed first (main.py:117-121)
scrape_article_contents_enrich ==
    /\ pc = "reparsed"
    /\ parsed # NoArticle
    /\ \E content \in {<<"c">>, Chars(3)} : enriched' = EnrichedArticle(parsed, content)
    /\ pc' = "enriched"
    /\ UNCHANGED <<config, simVars, poolVars, browser, simPage, navVars, listVars, runVars, extractVars, phases, contentVars,
                   now, element, parsed, parseRaised, reparsed>>

\* a second passes on the wall clock
clock_tick ==
    /\ pc \in {"parse", "parsed", "reparsed"}
    /\ now < MaxClock
    /\ now' = now + 1
    /\ UNCHANGED <<config, simVars, poolVars, pc, browser, simPage, navVars, listVars, runVars, extractVars, phases, contentVars,
                   element, parsed, parseRaised, reparsed, enriched>>

SpecParse ==
    InitParse /\ [][parse_article_first \/ parse_article_again \/ scrape_article_contents_enrich \/ clock_tick]_vars

\* ------------------------------------------------------------------------
\* _extract_content_from_html called on a document, followed by the choice
\* extract_article_content makes (tests/test_content_extractor.py:99-139,
\* content_extractor.py:116-132)
\* ------------------------------------------------------------------------
\* largest number of elements of a document
MaxElements == 2

El(t, cs, i, txt) == [tag |-> t, classes |-> cs, id |-> i, text |-> txt]

\* the elements a document is made of
ContentElements ==
    { El("div", {"jsx-3810287742", "jsx-430771670", "content"}, "", Chars(FallbackThreshold)),
      El("div", {"content"}, "", footer_texts[4]),
      El("div", {"article-body"}, "", <<"a", " ", " ", "b">>),
      El("div", {"post-content"}, "", <<"c">>),
      El("article", {}, "", Chars(FallbackThreshold - 1)),
      El("main", {}, "", <<" ">>),
      El("p", {}, "", <<" ", "p", " ", " ", "q", " ">>),
      El("p", {}, "", <<"r">>) }

\* the extractor is handed a document of up to MaxElements elements, under
\* the content_selectors of the tests (tests/test_content_extractor.py:130)
\* or the default ones
InitContent ==
    /\ config \in [retry_count : {1}, timeout : {DefaultTimeout}, base_url : {DefaultBaseUrl}, category : {Category},
                   content_selectors : {<<Sel("div", {"non-existent"}, "")>>, DefaultContentSelectors}]
    /\ pc = "content_extract"
    /\ browser = "None" /\ page = 0 /\ simPage = 0 /\ pagesOpened = 0
    /\ InitNavigation
    /\ browser_manager = "None"
    /\ InitScraperState
    /\ InitParserIdle
    /\ InitSimulatorIdle
    /\ html_content \in UNION {[1..n -> ContentElements] : n \in 0..MaxElements}
    /\ htmlExtract = [text |-> None, strategy |-> "none"]
    /\ jsResult = None
    /\ contentResult = None
    /\ jsCalls = 0

SpecContent == InitContent /\ [][NextContent]_vars

\* ------------------------------------------------------------------------
\* One run of scrape() on a freshly constructed TechInAsiaScraper
\* (run_scraper.py, main.py:143-205)
\* ------------------------------------------------------------------------
Init ==
    /\ config \in RunConfigs
    /\ pc = "idle"
    /\ browser = "None" /\ page = 0 /\ simPage = 0 /\ pagesOpened = 0
    /\ InitNavigation
    /\ browser_manager = "None"
    /\ InitScraperState
    /\ InitParserIdle
    /\ InitSimulatorIdle
    /\ InitExtractorIdle

Next == ScrapeNext \/ NavNext \/ ListNext \/ EnrichNext

Spec == Init /\ [][Next]_vars

\* ------------------------------------------------------------------------
\* ScraperConfig(...) built from given field values, then one run of
\* scrape() with it (run_scraper.py:5-11, models.py:37-151)
\* ------------------------------------------------------------------------
\* the field values handed to the constructor; a range is the pair of its
\* ends, and the fields left out keep their defaults
ConfigArguments ==
    [num_articles : {0, MaxQuota}, max_scrolls : {0, 1}, retry_count : {0, MaxRunRetry},
     batch_size : {0, 100}, timeout : {0, DefaultTimeout},
     base_url : {DefaultBaseUrl}, category : {<<>>, Category},
     scroll_iterations_range : {<<1, 3>>, <<3, 1>>, <<0, 3>>},
     url_delay_range : {<<1, 3>>, <<3, 1>>, <<-1, 3>>}]

\* the field validators, each on the fields its decorator names
\* (models.py:115-151); timeout has none
ScraperConfig_validate(v) ==
    LET validate_positive_int(x) == x > 0
        validate_int_range(x) == ~(x[1] > x[2]) /\ ~(x[1] <= 0)
        validate_float_range(x) == ~(x[1] > x[2]) /\ ~(x[1] < 0)
        validate_non_empty_string(x) == x # <<>>
    IN  /\ validate_positive_int(v.num_articles)
        /\ validate_positive_int(v.max_scrolls)
        /\ validate_positive_int(v.retry_count)
        /\ validate_positive_int(v.batch_size)
        /\ validate_int_range(v.scroll_iterations_range)
        /\ validate_float_range(v.url_delay_range)
        /\ validate_non_empty_string(v.category)

\* "config = ScraperConfig(...)": the object is there, or a ValidationError
\* leaves main before a scraper exists (run_scraper.py:7)
ScraperConfig_init ==
    /\ pc = "config"
    /\ pc' = IF ScraperConfig_validate(config) THEN "idle" ELSE "config_rejected"
    /\ UNCHANGED <<config, simVars, poolVars, parseVars, contentVars, browser, simPage, navVars, listVars, runVars, extractVars, phases>>

InitConfig ==
    /\ config \in ConfigArguments
    /\ pc = "config"
    /\ browser = "None" /\ page = 0 /\ simPage = 0 /\ pagesOpened = 0
    /\ InitNavigation
    /\ browser_manager = "None"
    /\ InitScraperState
    /\ InitParserIdle
    /\ InitSimulatorIdle
    /\ InitExtractorIdle

SpecConfig == InitConfig /\ [][ScraperConfig_init \/ Next]_vars

\* ------------------------------------------------------------------------
\* HumanBehaviorSimulator.simulate_scrolling, awaited on its own or by
\* simulate_user_behavior (human_behavior.py:10-114).  The constructor
\* takes any page and any configuration object (human_behavior.py:12-14).
\* ------------------------------------------------------------------------
\* largest number of scroll actions drawn
MaxIterations == 2

\* what page.evaluate can throw in a scroll action
ScrollErrors(p) ==
    IF p = 0 THEN {NoPageError}
    ELSE GotoErrors(p) \cup
         {[type |-> "Error", msg |-> <<"E", "x", "e", "c", "u", "t", "i", "o", "n", " ", "c", "o", "n", "t", "e", "x", "t", " ", "w", "a", "s", " ", "d", "e", "s", "t", "r", "o", "y", "e", "d">>]}

\* "Execution context was destroyed" in str(e) or "Target closed" in str(e)
\* (human_behavior.py:31)
StopsSimulation(e) ==
    \/ Contains(e.msg, <<"E", "x", "e", "c", "u", "t", "i", "o", "n", " ", "c", "o", "n", "t", "e", "x", "t", " ", "w", "a", "s", " ", "d", "e", "s", "t", "r", "o", "y", "e", "d">>)
    \/ Contains(e.msg, MsgTargetClosed)

\* simulate_scrolling is left, by a return or by an exception; when
\* simulate_user_behavior awaits it, an exception is caught there and the
\* mouse movements come next (human_behavior.py:84-92)
simulate_scrolling_leave(outcome) ==
    /\ simOutcome' = outcome
    /\ pc' = IF simCaller = "user_behavior" THEN "sim_mouse" ELSE "sim_done"

\* "iterations = random.randint(*self.config.scroll_iterations_range)"
\* (human_behavior.py:20): randint throws on an empty range, and the outer
\* handler then reads iterations (human_behavior.py:37-45), which throws
\* when it was never assigned
simulate_scrolling_draw ==
    /\ pc = "sim_draw"
    /\ LET range == config.scroll_iterations_range
       IN  IF range[1] <= range[2]
           THEN /\ iterations' \in range[1]..range[2]
                /\ pc' = "sim_scroll"
                /\ UNCHANGED simOutcome
           ELSE /\ simulate_scrolling_leave(IF iterations = Unbound THEN "raised" ELSE "returned")
                /\ UNCHANGED iterations
    /\ UNCHANGED <<config, poolVars, browser, simPage, navVars, listVars, runVars, extractVars, phases, parseVars, contentVars, simCaller, scrollLog, behaviourOutcome>>

\* one scroll action (human_behavior.py:23-36): what it throws is caught; a
\* navigation error ends the simulation, any other goes on to the next
\* action
simulate_scrolling_scroll ==
    /\ pc = "sim_scroll"
    /\ \E e \in (IF simPage = 0 THEN {} ELSE {NoError}) \cup ScrollErrors(simPage) :
          /\ scrollLog' = Append(scrollLog, e)
          /\ IF (e # NoError /\ StopsSimulation(e)) \/ Len(scrollLog) + 1 = iterations
             THEN simulate_scrolling_leave("returned")
             ELSE UNCHANGED <<pc, simOutcome>>
    /\ UNCHANGED <<config, poolVars, browser, simPage, navVars, listVars, runVars, extractVars, phases, parseVars, contentVars, simCaller, iterations, behaviourOutcome>>

\* the rest of simulate_user_behavior: the mouse movements and the reading
\* delay, each inside a try of its own, then "return True"
\* (human_behavior.py:90-105)
simulate_user_behavior_return ==
    /\ pc = "sim_mouse"
    /\ behaviourOutcome' = "true"
    /\ pc' = "sim_done"
    /\ UNCHANGED <<config, poolVars, browser, simPage, navVars, listVars, runVars, extractVars, phases, parseVars, contentVars, simCaller, iterations, scrollLog, simOutcome>>

\* a simulator on a page or on no page, with a validated range or with one
\* whose ends are out of order
InitSimulate ==
    /\ config \in {c @@ [scroll_iterations_range |-> r] :
                      c \in Configs(1, 1, 1), r \in {<<1, MaxIterations>>, <<3, 1>>}}
    /\ pc = "sim_draw"
    /\ \/ browser = "open" /\ page = 1 /\ simPage = 1 /\ pagesOpened = 1
       \/ browser = "None" /\ page = 0 /\ simPage = 0 /\ pagesOpened = 0
    /\ InitNavigation
    /\ browser_manager = "None"
    /\ InitScraperState
    /\ InitParserIdle
    /\ InitExtractorIdle
    /\ simCaller \in {"direct", "user_behavior"}
    /\ iterations = Unbound
    /\ scrollLog = <<>>
    /\ simOutcome = "none"
    /\ behaviourOutcome = "none"
    /\ scrapers = <<>>
    /\ listing_page = <<>>

SpecSimulate ==
    InitSimulate /\ [][simulate_scrolling_draw \/ simulate_scrolling_scroll \/ simulate_user_behavior_return]_vars

\* ------------------------------------------------------------------------
\* Two TechInAsiaScraper instances built from one configuration and run
\* side by side, interleaved at their awaits (main.py:24-41, 43-95,
\* 149-152)
\* ------------------------------------------------------------------------
\* TechInAsiaScraper.__init__ (main.py:24-38): the attributes are set on the
\* instance; articles and the loop position are locals of its listing call
TechInAsiaScraper ==
    [pc |-> "idle", page |-> 0, driven |-> {}, processed_article_ids |-> {},
     incomplete_articles |-> 0, total_articles |-> 0, articles |-> <<>>, cardIdx |-> 0]

\* variant: the seen-id set is one object shared by all the instances
SeenBy_shared(r) == UNION {scrapers[q].processed_article_ids : q \in DOMAIN scrapers}

\* self.processed_article_ids of instance r (main.py:35, 81)
SeenBy(r) == scrapers[r].processed_article_ids

\* "self.browser_manager = BrowserManager(self.config)" and setup_browser
\* (main.py:151-152, browser.py:42-47): a browser and a page of its own
scraper_setup_browser(r) ==
    /\ scrapers[r].pc = "idle"
    /\ LET handles == {scrapers[q].page : q \in DOMAIN scrapers}
           fresh == 1 + CHOOSE h \in handles : \A g \in handles : g <= h
       IN  scrapers' = [scrapers EXCEPT ![r].page = fresh, ![r].pc = "ready"]
    /\ UNCHANGED <<config, simVars, listing_page, pc, browser, simPage, navVars, listVars, runVars, extractVars, phases, parseVars, contentVars>>

\* the listing navigation on self.browser_manager.page (main.py:49,
\* browser.py:73)
scraper_navigate(r) ==
    /\ scrapers[r].pc = "ready"
    /\ scrapers' = [scrapers EXCEPT ![r].driven = @ \cup {scrapers[r].page}, ![r].pc = "listing"]
    /\ UNCHANGED <<config, simVars, listing_page, pc, browser, simPage, navVars, listVars, runVars, extractVars, phases, parseVars, contentVars>>

\* instance r after the loop iteration on a card that parsed to article
\* (main.py:80-87): the record is accepted when it is valid and its id is
\* not in the instance's set, and reaching the quota ends the listing
scraper_after_card(r, article) ==
    LET s == scrapers[r]
        accepted == /\ article # NoArticle
                    /\ is_valid_article(article)
                    /\ article.article_id \notin SeenBy(r)
    IN  IF ~accepted
        THEN [s EXCEPT !.cardIdx = @ + 1]
        ELSE [s EXCEPT !.cardIdx = @ + 1,
                       !.articles = Append(@, article),
                       !.processed_article_ids = @ \cup {article.article_id},
                       !.total_articles = IF QuotaReached(Len(s.articles) + 1) THEN Len(s.articles) + 1 ELSE @,
                       !.pc = IF QuotaReached(Len(s.articles) + 1) THEN "done" ELSE @]

\* one iteration of the for loop over the elements of the page
\* (main.py:79-87), or its end
scraper_card(r) ==
    /\ scrapers[r].pc = "listing"
    /\ IF scrapers[r].cardIdx >= Len(SelectArticleElements(listing_page))
       THEN scrapers' = [scrapers EXCEPT ![r].pc = "done", ![r].total_articles = Len(scrapers[r].articles)]
       ELSE scrapers' = [scrapers EXCEPT ![r] =
                scraper_after_card(r, parse_article(SelectArticleElements(listing_page)[scrapers[r].cardIdx + 1]))]
    /\ UNCHANGED <<config, simVars, listing_page, pc, browser, simPage, navVars, listVars, runVars, extractVars, phases, parseVars, contentVars>>

InitPool ==
    /\ config \in Configs(1, 1, MaxQuota)
    /\ pc = "pool"
    /\ browser = "None" /\ page = 0 /\ simPage = 0 /\ pagesOpened = 0
    /\ InitNavigation
    /\ browser_manager = "None"
    /\ InitScraperState
    /\ InitParserIdle
    /\ InitExtractorIdle
    /\ simCaller = "none"
    /\ iterations = Unbound
    /\ scrollLog = <<>>
    /\ simOutcome = "none"
    /\ behaviourOutcome = "none"
    /\ scrapers = [r \in {1, 2} |-> TechInAsiaScraper]
    /\ listing_page \in Snapshots

SpecPool ==
    InitPool /\ [][\E r \in DOMAIN scrapers : scraper_setup_browser(r) \/ scraper_navigate(r) \/ scraper_card(r)]_vars

\* ========================================================================
\* Properties
\* ========================================================================
\* the attempts observed so far that failed
FailedCalls == {i \in 1..Len(gotoCalls) : gotoCalls[i].error # NoError}

\* C2: navigate_to_url issues its page.goto attempts one after another, all
\* with the url argument and the configured timeout; it returns true with
\* exactly k attempts when attempt k is the first success, and false with
\* exactly retry_count attempts when every attempt throws.
C2_AttemptsUntilFirstSuccess ==
    /\ Len(gotoCalls) <= config.retry_count
    /\ \A i \in 1..Len(gotoCalls) :
         /\ gotoCalls[i].url = navUrl
         /\ gotoCalls[i].timeout = config.timeout
         /\ gotoCalls[i].attempt = i - 1
         /\ i < Len(gotoCalls) => gotoCalls[i].error # NoError
    /\ navpc = "done" /\ navResult =>
         /\ Len(gotoCalls) >= 1
         /\ gotoCalls[Len(gotoCalls)].error = NoError
         /\ FailedCalls = 1..(Len(gotoCalls) - 1)
    /\ navpc = "done" /\ ~navResult =>
         /\ Len(gotoCalls) = config.retry_count
         /\ FailedCalls = 1..config.retry_count

\* a call that returned true on its second attempt with retries to spare
C2_Witness ==
    /\ navpc = "done"
    /\ navResult
    /\ Len(gotoCalls) = 2
    /\ config.retry_count > 2

NavPositions == {"idle", "goto", "wait", "close_page", "new_page", "done"}

\* C3: navigate_to_url never raises to its caller, whatever the page handle
\* does (timeouts, transport errors, failures while closing or recreating the
\* page); it returns a boolean, and false only once the retries are exhausted.
C3_NeverRaises ==
    /\ navpc \in NavPositions
    /\ navResult \in BOOLEAN
    /\ navpc = "done" /\ ~navResult =>
         /\ Len(gotoCalls) = config.retry_count
         /\ \A i \in 1..Len(gotoCalls) : gotoCalls[i].error # NoError

\* a call that returned false after a failed page.close() and a failed
\* new_page() during recreation
C3_Witness ==
    /\ navpc = "done"
    /\ ~navResult
    /\ \E i \in 1..Len(recreations) : recreations[i].outcome = "close_failed"
    /\ \E i \in 1..Len(recreations) : recreations[i].outcome = "new_page_failed"

\* the waits and the attempts pair up: wait i follows failed attempt i-1
WaitsFollowFailures ==
    /\ \A i \in 1..Len(waits) :
         /\ waits[i].attempt = i - 1
         /\ waits[i].attempt < config.retry_count - 1
         /\ i <= Len(gotoCalls)
         /\ gotoCalls[i].error # NoError
    /\ navpc = "goto" => Len(waits) = Len(gotoCalls)
    /\ navpc = "wait" => Len(waits) = Len(gotoCalls) - 1
    /\ navpc = "done" => Len(waits) = Len(gotoCalls) - 1
    /\ navpc = "done" /\ ~navResult => Len(waits) = config.retry_count - 1

\* C4 as stated: one wait after every failed attempt but the last, its
\* deterministic part base^attempt with base >= 2, growing with the attempt
\* number; no wait after the final failure, so retry_count - 1 waits when all
\* attempts fail.
C4_WaitGrowsWithAttempt ==
    /\ WaitsFollowFailures
    /\ \A i \in 1..Len(waits) :
         /\ waits[i].base >= 2
         /\ waits[i].seconds = waits[i].base ^ waits[i].attempt
    /\ \A i, j \in 1..Len(waits) : i < j => waits[i].seconds < waits[j].seconds

\* C4 amended: the base is 2 after a timeout and 3 after any other error, and
\* the deterministic part grows with the attempt number among waits of the
\* same base.
C4_BackoffPerErrorKind ==
    /\ WaitsFollowFailures
    /\ \A i \in 1..Len(waits) :
         /\ waits[i].base = (IF gotoCalls[i].error.type = "PlaywrightTimeoutError" THEN 2 ELSE 3)
         /\ waits[i].seconds = waits[i].base ^ waits[i].attempt
    /\ \A i, j \in 1..Len(waits) :
         i < j /\ waits[i].base = waits[j].base => waits[i].seconds < waits[j].seconds

\* every attempt failed, with both kinds of failure, and retry_count - 1
\* waits were made
C4_Witness ==
    /\ navpc = "done"
    /\ ~navResult
    /\ config.retry_count >= 3
    /\ Len(waits) = config.retry_count - 1
    /\ \E i, j \in 1..Len(waits) : waits[i].base = 2 /\ waits[j].base = 3

\* the recreation record of the attempt numbered a, if any
RecreationsOf(a) == {r \in 1..Len(recreations) : recreations[r].attempt = a}

\* the error of attempt i reached the generic handler with a message
\* containing "Connection closed"
ReportsConnectionClosed(i) ==
    /\ gotoCalls[i].error.type # "PlaywrightTimeoutError"
    /\ Contains(gotoCalls[i].error.msg, MsgConnectionClosed)

\* attempt i failed, was not the last, and its retry has been issued
Retried(i) == i < Len(gotoCalls) /\ gotoCalls[i].error # NoError

\* C5 as stated: a non-final attempt failing with a transport error reporting
\* "connection closed" or "target closed" has the page recreated (old page
\* closed, new page opened) before the retry, which runs on the new handle.
C5_RecreatedOnClosedErrors ==
    \A i \in 1..Len(gotoCalls) :
        /\ Retried(i)
        /\ gotoCalls[i].error.type # "PlaywrightTimeoutError"
        /\ \/ Contains(gotoCalls[i].error.msg, MsgConnectionClosed)
           \/ Contains(gotoCalls[i].error.msg, MsgTargetClosed)
        => /\ gotoCalls[i].page \in closedPages
           /\ gotoCalls[i + 1].page # gotoCalls[i].page
           /\ gotoCalls[i + 1].page > gotoCalls[i].page

\* C5 amended: only a non-timeout error whose message contains "Connection
\* closed" starts a recreation, after the wait and before the retry; when
\* close() and new_page() both succeed the retry runs on the new handle and
\* the old page is closed, otherwise (and for every other error) the retry
\* runs on the handle left in place.
C5_RecreatedOnConnectionClosed ==
    \A i \in 1..Len(gotoCalls) :
        Retried(i) =>
            IF ReportsConnectionClosed(i) /\ gotoCalls[i].page # 0
            THEN /\ Cardinality(RecreationsOf(i - 1)) = 1
                 /\ \A r \in RecreationsOf(i - 1) :
                      /\ recreations[r].old = gotoCalls[i].page
                      /\ gotoCalls[i + 1].page = recreations[r].new
                      /\ IF recreations[r].outcome = "recreated"
                         THEN /\ recreations[r].new > recreations[r].old
                              /\ recreations[r].old \in closedPages
                         ELSE recreations[r].new = recreations[r].old
            ELSE /\ gotoCalls[i + 1].page = gotoCalls[i].page
                 /\ gotoCalls[i].error.type = "Error" => RecreationsOf(i - 1) = {}

\* a retry issued on a freshly opened page after a "Connection closed" error
C5_Witness ==
    \E i \in 1..Len(gotoCalls) :
        /\ Retried(i)
        /\ ReportsConnectionClosed(i)
        /\ gotoCalls[i + 1].page > gotoCalls[i].page
        /\ gotoCalls[i].page \in closedPages

\* C1: in one listing-phase run of scrape_article_list no two records of the
\* accumulated (and returned) list share an article_id.
C1_UniqueArticleIds ==
    \A i, j \in 1..Len(articles) :
        i # j => articles[i].article_id # articles[j].article_id

\* two cards of one snapshot with different URLs and the same id were both
\* parsed, and only the first was kept
C1_Witness ==
    /\ pc = "list_sleep"
    /\ config.num_articles = 2
    /\ Len(article_elements) = 2
    /\ parses = 2
    /\ parse_article(article_elements[1]) # NoArticle
    /\ parse_article(article_elements[2]) # NoArticle
    /\ parse_article(article_elements[1]).article_id = parse_article(article_elements[2]).article_id
    /\ parse_article(article_elements[1]).article_url # parse_article(article_elements[2]).article_url
    /\ Len(articles) = 1

\* steps navigate_to_url can still take: at most four per remaining attempt
NavRank ==
    CASE navpc = "goto" -> 4 * (config.retry_count - attempt)
      [] navpc = "wait" -> 4 * (config.retry_count - attempt) - 1
      [] navpc = "close_page" -> 4 * (config.retry_count - attempt) - 2
      [] navpc = "new_page" -> 4 * (config.retry_count - attempt) - 3
      [] OTHER -> 0

\* steps one iteration of the while loop can take
IterationSteps == MaxCards + 4

\* steps the running scrape_article_list can still take
ListRank ==
    CASE pc = "list_nav" -> config.max_scrolls * IterationSteps + 2 + NavRank
      [] pc = "list_loop" -> (config.max_scrolls - scroll_count) * IterationSteps + 1
      [] pc = "list_content" -> (config.max_scrolls - scroll_count) * IterationSteps
      [] pc = "list_cards" -> (config.max_scrolls - scroll_count) * IterationSteps - 1 - cardIdx
      [] pc = "list_sleep" -> (config.max_scrolls - scroll_count) * IterationSteps + 2
      [] OTHER -> 0

\* C6: scrape_article_list always terminates: whatever the page returns, the
\* scroll loop runs at most max_scrolls iterations, the scroll counter never
\* exceeds max_scrolls, and every step of a running call lowers a bounded
\* count of the steps it has left.
C6_ScrollLoopTerminates ==
    /\ [](/\ scroll_count <= config.max_scrolls
          /\ scrollSims <= config.max_scrolls
          /\ snapshots <= config.max_scrolls
          /\ ListRank >= 0
          /\ listOutcome = "running" => ListRank > 0)
    /\ [][listOutcome = "running" => ListRank' < ListRank]_vars

\* a call that returned after max_scrolls iterations over pages without a
\* single parsable card
C6_Witness ==
    /\ listOutcome = "returned"
    /\ config.max_scrolls = 2
    /\ scroll_count = config.max_scrolls
    /\ snapshots = config.max_scrolls
    /\ articles = <<>>

\* C7: the accumulated records never outnumber num_articles, and once the
\* quota is reached the running call accepts no further card and starts no
\* further scroll simulation, snapshot or parse.
C7_QuotaRespected ==
    /\ [](Len(articles) <= config.num_articles)
    /\ [][listOutcome = "running" /\ listOutcome' = "running" /\ Len(articles) >= config.num_articles
            => /\ articles' = articles
               /\ scrollSims' = scrollSims
               /\ snapshots' = snapshots
               /\ parses' = parses]_vars

\* the quota was reached on the first of two cards and the second was left
\* unparsed
C7_Witness ==
    /\ pc = "list_sleep"
    /\ Len(articles) = config.num_articles
    /\ Len(article_elements) = 2
    /\ parses = 1
    /\ parse_article(article_elements[2]) # NoArticle
    /\ parse_article(article_elements[2]).article_id \notin processed_article_ids

\* C8: scrape_article_list never raises: an exception at any step (the
\* initial navigation call included) ends in the accumulated records being
\* returned.
C8_ListNeverRaises == listOutcome # "raised"

\* the listing URL written out for the configured base_url and category
ExpectedListingUrl ==
    SiteOrigin \o <<"/", "n", "e", "w", "s", "?", "c", "a", "t", "e", "g", "o", "r", "y", "=", "a", "i">>

\* C9: the listing navigates to base_url?category=<slug>; when that
\* navigation fails, scrape_article_list returns an empty list without a
\* scroll simulation, a page snapshot or a parse, and the run then calls
\* neither save_to_csv nor save_to_json
C9_NavigationFailureAborts ==
    /\ pc = "list_nav" => navUrl = ExpectedListingUrl
    /\ listNavigated = "failed" =>
        /\ listOutcome = "returned"
        /\ articles = <<>>
        /\ scrollSims = 0 /\ snapshots = 0 /\ parses = 0
        /\ csvSaves = 0 /\ jsonSaves = 0
        /\ pc \in {"scrape_listed", "scrape_leave_return", "scrape_done"}
        /\ pc = "scrape_done" => scrapeResult = "empty" /\ exitPath = "no_articles"

\* a run that ended after its listing navigation had failed on every attempt
C9_Witness ==
    /\ pc = "scrape_done"
    /\ listNavigated = "failed"
    /\ config.retry_count > 1
    /\ scrapeResult = "empty"

\* the positions of a run between entering and leaving the playwright scope
InsideScope ==
    pc \notin {"idle", "scrape_done"}

\* C10: a run of scrape that acquired a browser session releases it exactly
\* once before it ends, whether it completes, returns early with no
\* article, or an exception is raised in the pipeline; it is not released
\* while the pipeline still runs
C10_SessionReleasedOnce ==
    /\ acquired <= 1
    /\ released <= acquired
    /\ (pc = "scrape_done" /\ acquired = 1) =>
        /\ released = 1
        /\ playwright = "stopped"
        /\ browser # "open"
    /\ InsideScope => acquired = 1 /\ released = 0 /\ playwright = "started"

\* a run that opened its browser, raised in the pipeline and has ended
C10_Witness ==
    /\ pc = "scrape_done"
    /\ exitPath = "exception"
    /\ browser = "closed"
    /\ released = 1

\* the operations a run has begun so far
PhaseSet == {phases[i] : i \in 1..Len(phases)}

\* the place of an operation in the pipeline
PhaseRank(p) ==
    CASE p = "open" -> 1
      [] p = "list" -> 2
      [] p = "enrich" -> 3
      [] p = "store" -> 4
      [] p = "close" -> 5

\* C11: a run of scrape goes through session open, listing, enrichment,
\* storage and session close in that order and each at most once; the
\* listing starts only with the session open, the enrichment only after the
\* listing has returned, and storage only after the enrichment has processed
\* every listed record
C11_PhaseOrder ==
    /\ \A i, j \in 1..Len(phases) : i < j => PhaseRank(phases[i]) < PhaseRank(phases[j])
    /\ "list" \in PhaseSet => "open" \in PhaseSet
    /\ listOutcome = "running" => browser = "open" /\ playwright = "started"
    /\ "enrich" \in PhaseSet => "list" \in PhaseSet /\ listOutcome = "returned"
    /\ "store" \in PhaseSet =>
        /\ "enrich" \in PhaseSet
        /\ Len(extractCalls) = Len(articles)
        /\ extractOutcome = "returned"
        /\ Len(articles_with_content) + incomplete_articles = Len(articles)

\* a finished run that went through all five phases with two records
C11_Witness ==
    /\ pc = "scrape_done"
    /\ phases = <<"open", "list", "enrich", "store", "close">>
    /\ Len(articles) = 2

\* C12: when the listing returns no record, extract_article_content is never
\* called, nothing is handed to the storage collaborator, and the run
\* returns an empty result by its early return, not by an exception
C12_EmptyListingSkipsEnrichment ==
    (/\ pc \in {"scrape_leave_return", "scrape_done"}
     /\ listOutcome = "returned"
     /\ articles = <<>>) =>
        /\ extractCalls = <<>>
        /\ "enrich" \notin PhaseSet
        /\ "store" \notin PhaseSet
        /\ csvSaves = 0 /\ jsonSaves = 0
        /\ scrapeResult = "empty"
        /\ exitPath = "no_articles"

\* a finished run whose listing page loaded but gave no record
C12_Witness ==
    /\ pc = "scrape_done"
    /\ listNavigated = "ok"
    /\ listOutcome = "returned"
    /\ articles = <<>>
    /\ scrapeResult = "empty"

\* the ids of the listed records in listing order
ListedIds == [i \in 1..Len(articles) |-> articles[i].article_id]

\* C13: scrape_article_contents calls extract_article_content once per
\* listed record, in listing order, and goes on to the later records after
\* an extraction that gave no content
C13_EveryRecordExtractedInOrder ==
    "enrich" \in PhaseSet =>
        /\ Len(extractCalls) <= Len(articles)
        /\ extractCalls = SubSeq(ListedIds, 1, Len(extractCalls))
        /\ Len(extractCalls) = IF pc = "enrich_article" THEN enrichIdx - 1 ELSE enrichIdx
        /\ pc \in {"scrape_enriched", "scrape_leave_return", "scrape_done"} => extractCalls = ListedIds

\* a finished run of two records: the first gave no content, the second did
C13_Witness ==
    /\ pc = "scrape_done"
    /\ Len(articles) = 2
    /\ incomplete_articles = 1
    /\ Len(articles_with_content) = 1
    /\ articles_with_content[1].article_id = articles[2].article_id
    /\ extractCalls = ListedIds

\* C14: a listed record whose extraction failed is still in the sequence
\* handed to storage, without content, and the incomplete counter counts it
C14_FailedRecordKept ==
    (pc = "scrape_done" /\ exitPath = "normal") =>
        /\ \A i \in 1..Len(articles) : \E j \in 1..Len(articles_with_content) :
              articles_with_content[j].article_id = articles[i].article_id
        /\ incomplete_articles = Cardinality({j \in 1..Len(articles_with_content) : articles_with_content[j].content \in {None, <<>>}})

\* C15: every run that opened its session returns a result and produces the
\* statistics summary once
C15_SummaryAlways ==
    (pc = "scrape_done" /\ "open" \in PhaseSet) =>
        /\ scrapeResult \in {"empty", "frame"}
        /\ summaries = 1

\* C16: when setup_browser fails, the caller of scrape gets an error, not a
\* result, and no listing, enrichment or storage step runs
C16_SetupFailureSurfaced ==
    (pc = "scrape_done" /\ acquired = 1 /\ "open" \notin PhaseSet) =>
        /\ scrapeResult \notin {"empty", "frame"}
        /\ PhaseSet \subseteq {"close"}

C18_NoNavigationWithoutUrl ==
    (extractOutcome # "none" /\ extractArticle.article_url = None) =>
        /\ navpc = "idle"
        /\ extractNavs = <<>>
        /\ (extractOutcome = "returned" => extractResult = None)

\* C19: when the navigation to the article page fails the call returns
\* None and simulate_user_behavior is not invoked
C19_NavigationFailureReturnsNull ==
    (extractNavs # <<>> /\ ~extractNavs[1].ok) =>
        /\ behaviourSims = 0
        /\ pc \notin {"extract_page", "extract_simulate", "extract_select"}
        /\ (extractOutcome = "returned" => extractResult = None)

\* C20: for a record with an article_url the call navigates exactly once,
\* to that article_url
C20_NavigatesOnceToArticleUrl ==
    /\ (extractOutcome = "running" /\ extractArticle.article_url # None /\ navUrl # <<>>) =>
          navUrl = extractArticle.article_url
    /\ (extractOutcome = "returned" /\ extractArticle.article_url # None /\ extractRaisedAt \notin {"construct", "navigate"}) =>
          /\ Len(extractNavs) = 1
          /\ extractNavs[1].url = extractArticle.article_url

\* ------------------------------------------------------------------------
\* Content extraction on a document (SpecContent)
\* ------------------------------------------------------------------------
\* C21 (as stated): once extract_article_content has chosen its content, an
\* HTML-derived content shorter than 200 characters has triggered the script
\* fallback exactly once, and the script's result replaced it only if it is
\* strictly longer; an HTML-derived content of 200 characters or more
\* triggered no fallback and is returned unchanged
C21_ShortContentTriggersFallback ==
    (pc = "content_done" /\ htmlExtract.text # None) =>
        IF Len(htmlExtract.text) < FallbackThreshold
        THEN /\ jsCalls = 1
             /\ contentResult = IF jsResult # None /\ Len(jsResult) > Len(htmlExtract.text)
                                THEN jsResult
                                ELSE htmlExtract.text
        ELSE /\ jsCalls = 0
             /\ contentResult = htmlExtract.text

\* every selector of the list yields nothing on the document
YieldsNothing(doc, selectors) == \A k \in 1..Len(selectors) : SelectedText(doc, selectors[k]) = <<>>

\* the text is the clean-up of what the first yielding selector of the list
\* gives
FromFirstYielding(doc, selectors, text) ==
    \E k \in 1..Len(selectors) :
        /\ SelectedText(doc, selectors[k]) # <<>>
        /\ \A j \in 1..(k - 1) : SelectedText(doc, selectors[j]) = <<>>
        /\ text = CleanContent(SelectedText(doc, selectors[k]))

\* the strategies are tried in the fixed order and the first that yields a
\* non-empty text wins
StrategyPriority ==
    pc # "content_extract" =>
        /\ htmlExtract.strategy = "site" <=> ~YieldsNothing(html_content, tia_selectors)
        /\ htmlExtract.strategy = "site" => FromFirstYielding(html_content, tia_selectors, htmlExtract.text)
        /\ htmlExtract.strategy = "configured" =>
              /\ YieldsNothing(html_content, tia_selectors)
              /\ FromFirstYielding(html_content, config.content_selectors, htmlExtract.text)
        /\ htmlExtract.strategy = "paragraphs" =>
              /\ YieldsNothing(html_content, tia_selectors)
              /\ YieldsNothing(html_content, config.content_selectors)
              /\ ParagraphTexts(html_content) # <<>>
        /\ htmlExtract.strategy = "none" =>
              /\ YieldsNothing(html_content, tia_selectors)
              /\ YieldsNothing(html_content, config.content_selectors)
              /\ ParagraphTexts(html_content) = <<>>
              /\ htmlExtract.text = None

\* the document holds <p> elements only, and no selector matches an element
OnlyParagraphs ==
    /\ html_content # <<>>
    /\ \A i \in 1..Len(html_content) : html_content[i].tag = "p"
    /\ \A k \in 1..Len(tia_selectors) : select_one(html_content, tia_selectors[k]) = 0
    /\ \A k \in 1..Len(config.content_selectors) : select_one(html_content, config.content_selectors[k]) = 0

\* C22 (as stated): the strategies are tried in the fixed priority order and
\* the first that yields a non-empty text wins; for a document of <p>
\* elements only and selectors that match nothing the result is non-null and
\* equal to the paragraph texts joined by spaces
C22_ParagraphsJoined ==
    /\ StrategyPriority
    /\ (pc # "content_extract" /\ OnlyParagraphs) =>
          /\ htmlExtract.text # None
          /\ htmlExtract.text = JoinSpace(ParagraphTexts(html_content))

\* C22 (amended): the strategies are tried in the fixed priority order and
\* the first that yields a non-empty text wins; for a document of <p>
\* elements only and selectors that match nothing the result is null when no
\* paragraph has text, and otherwise the stripped non-empty paragraph texts
\* joined by spaces, with the footer phrases removed and every run of
\* whitespace collapsed to one space
C22_ParagraphsJoinedAndCleaned ==
    /\ StrategyPriority
    /\ (pc # "content_extract" /\ OnlyParagraphs) =>
          htmlExtract.text = IF ParagraphTexts(html_content) = <<>>
                             THEN None
                             ELSE CleanContent(JoinSpace(ParagraphTexts(html_content)))

\* a document of paragraphs only was extracted and the clean-up changed the
\* joined text
C22_Witness ==
    /\ pc = "content_done"
    /\ OnlyParagraphs
    /\ htmlExtract.strategy = "paragraphs"
    /\ htmlExtract.text # None
    /\ htmlExtract.text # JoinSpace(ParagraphTexts(html_content))

\* ------------------------------------------------------------------------
\* parse_article on an element of its own (SpecParse)
\* ------------------------------------------------------------------------
\* the element itself holds no anchor with a usable href
NoUsableAnchor(card) ==
    /\ \A i \in 1..Len(card.links) : ~UsableHref(card.links[i])
    /\ \A i \in 1..Len(card.elementLinks) : ~UsableHref(card.elementLinks[i])

\* C23 (as stated): parse_article returns null for every element that holds
\* no anchor with a usable href, whatever the page around it holds
C23_NoAnchorNoRecord ==
    (pc # "parse" /\ NoUsableAnchor(element)) => parsed = NoArticle

\* C24: parse_article never lets an exception out: a failure inside the
\* call, such as the rejection of the record by the Article constructor,
\* ends in a null return, and a datetime attribute that cannot be read ends
\* in a null posted_time
C24_ParseNeverRaises ==
    /\ ~parseRaised
    /\ (pc # "parse" /\ parse_article_try(element).raised) => parsed = NoArticle
    /\ (pc # "parse" /\ parsed # NoArticle /\ Attr(element, "datetime", None) # None /\ Attr(element, "datetime", None) # IsoSample) =>
          parsed.posted_time = None

\* the constructor threw inside a finished call, which returned null
C24_Witness ==
    /\ pc = "parsed"
    /\ parse_article_try(element).raised
    /\ parsed = NoArticle
    /\ ~parseRaised

\* C25 (as stated): when an id and a URL are extracted from the card,
\* parse_article returns a record, whichever of title, source, source_url and
\* image_url its sub-strategy did not find
C25_MissingFieldsKeepRecord ==
    (pc # "parse" /\ RequiredFound(_extract_article_id_and_url(element))) => parsed # NoArticle

\* C26 (as stated): two parse_article calls on the same element return
\* records equal in every field, scraped_at included
C26_ParseTwiceIdentical ==
    pc \in {"reparsed", "enriched"} => reparsed = parsed

\* the first anchor href the parser uses, <<>> when there is none
FirstUsableHref(card) ==
    LET links == ArticleLinks(card)
        usable == {i \in 1..Len(links) : UsableHref(links[i])}
    IN  IF usable = {} THEN <<>> ELSE links[CHOOSE i \in usable : \A j \in usable : i <= j]

\* the path of an href: all of a relative one, what follows the host of an
\* absolute one
PathOf(href) ==
    IF SchemeEnd(href, 1) # 0
    THEN SubSeq(href, FirstSlashFrom(href, SchemeEnd(href, 1) + 1), Len(href))
    ELSE href

\* the last non-empty segment of a path, <<>> when it has none
LastSegment(path) ==
    LET chars == {i \in 1..Len(path) : path[i] # "/"}
    IN  IF chars = {} THEN <<>>
        ELSE LET end == CHOOSE i \in chars : \A j \in chars : j <= i
                 slashes == {i \in 1..end : path[i] = "/"}
                 start == IF slashes = {} THEN 1
                          ELSE (CHOOSE i \in slashes : \A j \in slashes : j <= i) + 1
             IN  SubSeq(path, start, end)

\* C27 (as stated): the article_id of a record is the last non-empty segment
\* of the path of the first usable href, also when the href ends with a
\* slash, and the domain of the link only when the path has no segment; a
\* relative href is resolved against the site origin
C27_IdIsLastPathSegment ==
    (pc # "parse" /\ parsed # NoArticle) =>
        LET href == FirstUsableHref(element) IN
        /\ parsed.article_id = IF LastSegment(PathOf(href)) # <<>>
                               THEN LastSegment(PathOf(href))
                               ELSE DomainOf(ArticleUrlOf(href))
        /\ ~StartsWith(href, SchemeHttp) => parsed.article_url = SiteOrigin \o href

\* the card has no time element, no span that tells an age and no taxonomy
\* anchor
NoTimeNoTaxonomy(card) ==
    /\ Attr(card, "timeText", None) = None
    /\ \A i \in 1..Len(Attr(card, "spans", <<>>)) : ~HasRecency(Strip(card.spans[i]))
    /\ Attr(card, "categoryLinks", <<>>) = <<>>
    /\ Attr(card, "tagLinks", <<>>) = <<>>

FieldsButContent ==
    {"article_id", "title", "article_url", "source", "source_url", "image_url", "posted_time",
     "relative_time", "categories", "tags", "scraped_at"}

\* C29: the enriched record equals the record it was built from in every
\* field but content, scraped_at included, and that record still has the
\* null content the parser gave it
C29_EnrichmentKeepsFields ==
    pc = "enriched" =>
        /\ \A f \in FieldsButContent : enriched[f] = parsed[f]
        /\ enriched.content # None
        /\ parsed.content = None

\* a record was enriched after the clock moved on from its scraped_at
C29_Witness ==
    /\ pc = "enriched"
    /\ enriched.content = <<"c">>
    /\ enriched.scraped_at = Strftime(0)
    /\ now > 0

\* ------------------------------------------------------------------------
\* Records accepted by the listing loop (Spec)
\* ------------------------------------------------------------------------
\* C30: every record of the list scrape_article_list builds, and so every
\* record enriched and stored, has a non-null article_url and a non-null
\* article_id and passes is_valid_article, and while the listing runs the ids
\* marked as seen are exactly the ids of those records
C30_AcceptedRecordsHaveUrlAndId ==
    /\ \A i \in 1..Len(articles) :
          /\ is_valid_article(articles[i])
          /\ articles[i].article_id # None
          /\ articles[i].article_url # None
    /\ \A i \in 1..Len(articles_with_content) :
          /\ articles_with_content[i].article_id # None
          /\ articles_with_content[i].article_url # None
    /\ processed_article_ids \subseteq {articles[i].article_id : i \in 1..Len(articles)}
    /\ (phases # <<>> /\ phases[Len(phases)] = "list") =>
          processed_article_ids = {articles[i].article_id : i \in 1..Len(articles)}

\* the loop went past a card that gave no record and accepted another
C30_Witness ==
    /\ phases # <<>> /\ phases[Len(phases)] = "list"
    /\ Len(article_elements) = 2
    /\ parse_article(article_elements[1]) = NoArticle
    /\ Len(articles) = 1
    /\ articles[1] = parse_article(article_elements[2])
    /\ processed_article_ids = {articles[1].article_id}

\* ------------------------------------------------------------------------
\* The delay and the counters of the enrichment loop (Spec)
\* ------------------------------------------------------------------------
\* C34: in scrape_article_contents a delay follows every record but the
\* last, whether its extraction gave a content or not: the loop index moves
\* only in a delay step, a delay step comes right after the extraction of a
\* record that has a successor and right before the call on that successor,
\* and the loop ends straight after the last record
C34_DelaysBetweenRecords ==
    [][/\ (pc' = "enrich_sleep" /\ pc # "enrich_sleep") =>
              /\ extractOutcome' = "returned"
              /\ enrichIdx < Len(articles)
              /\ Len(extractCalls') = enrichIdx
       /\ pc = "enrich_sleep" =>
              /\ pc' = "enrich_article"
              /\ enrichIdx' = enrichIdx + 1
       /\ (enrichIdx' # enrichIdx) => pc \in {"enrich_sleep", "scrape_listed"}
       /\ pc = "enrich_article" => extractCalls' = Append(extractCalls, articles[enrichIdx].article_id)
       /\ (pc' = "scrape_enriched" /\ pc # "scrape_enriched") => enrichIdx = Len(articles)
      ]_vars

\* the delay after a first record whose extraction failed
C34_Witness ==
    /\ pc = "enrich_sleep"
    /\ enrichIdx = 1
    /\ Len(articles) = 2
    /\ incomplete_articles = 1
    /\ articles_with_content = <<>>

\* C35: while the enrichment loop runs, the enriched records and the
\* incomplete counter add up to the records processed so far; after the
\* loop they add up to the listed records; the counter never decreases
C35_EnrichedPlusIncomplete ==
    /\ []("enrich" \in PhaseSet =>
            /\ Len(articles_with_content) + incomplete_articles =
                  IF pc \in {"enrich_sleep", "scrape_enriched", "scrape_leave_return", "scrape_done"}
                  THEN enrichIdx ELSE enrichIdx - 1
            /\ pc \in {"scrape_enriched", "scrape_leave_return", "scrape_done"} =>
                  Len(articles_with_content) + incomplete_articles = Len(articles))
    /\ [][incomplete_articles' >= incomplete_articles]_vars

\* the loop is over two records: one enriched, one counted as incomplete
C35_Witness ==
    /\ pc = "scrape_enriched"
    /\ Len(articles) = 2
    /\ Len(articles_with_content) = 1
    /\ incomplete_articles = 1

\* ------------------------------------------------------------------------
\* The simulator's page handle (SpecNav)
\* ------------------------------------------------------------------------
\* C37: the page handle of the human-behaviour simulator is the page handle
\* of the browser manager, also after navigate_to_url has recreated the page
C37_SimulatorDrivesCurrentPage == simPage = page

\* ------------------------------------------------------------------------
\* Ids and URLs of the listed cards (SpecList)
\* ------------------------------------------------------------------------
\* C38: the listing loop accepts every card that parses to a valid record
\* whose article URL is the URL of no record accepted before, so that a
\* card is only discarded as a duplicate of a record with the same URL
C38_DistinctUrlsDistinctIds ==
    [][pc = "list_cards" =>
          LET article == parse_article(article_elements[cardIdx])
          IN  (/\ article # NoArticle
               /\ is_valid_article(article)
               /\ \A i \in 1..Len(articles) : articles[i].article_url # article.article_url)
              => articles' = Append(articles, article)
      ]_vars

\* ------------------------------------------------------------------------
\* The text _extract_content_from_html returns (SpecContent)
\* ------------------------------------------------------------------------
\* C39: _extract_content_from_html returns null or a non-empty text, never
\* an empty string
C39_NullOrNonEmpty ==
    pc # "content_extract" => (htmlExtract.text = None \/ htmlExtract.text # <<>>)

\* ------------------------------------------------------------------------
\* The statistics summary (Spec)
\* ------------------------------------------------------------------------
\* C40: in the summary of a completed run the valid figure is the number of
\* records the listing accepted, and the duplicate figure is not negative
C40_SummaryFigures ==
    summaries > 0 =>
        LET s == log_summary(total_articles, processed_article_ids, incomplete_articles)
        IN  /\ s.valid = Len(articles)
            /\ s.duplicate >= 0

\* ------------------------------------------------------------------------
\* Configurations (SpecConfig)
\* ------------------------------------------------------------------------
\* C31: a configuration with max_scrolls = 0 is one a listing crawl runs
\* with, and that crawl returns without a scroll simulation
C31_ZeroScrollsReturnsFirstPage ==
    (config.max_scrolls = 0 /\ pc # "config") =>
        /\ pc # "config_rejected"
        /\ pc = "scrape_listed" => (listOutcome = "returned" /\ scrollSims = 0)

\* C32: building a configuration fails when a range has its ends out of
\* order or a negative end, when the category is empty, or when the article
\* quota, the scroll ceiling, the navigation timeout, the retry ceiling or
\* the batch size is not positive; under such values no browser is launched
\* and no navigation runs
C32_InvalidConfigRejected ==
    LET BadRange(x) == x[1] > x[2] \/ x[1] < 0 \/ x[2] < 0
        violating == \/ BadRange(config.scroll_iterations_range)
                     \/ BadRange(config.url_delay_range)
                     \/ config.category = <<>>
                     \/ \E f \in {"num_articles", "max_scrolls", "timeout", "retry_count", "batch_size"} :
                           config[f] <= 0
    IN  (violating /\ pc # "config") =>
            /\ pc = "config_rejected"
            /\ browser = "None"
            /\ pagesOpened = 0
            /\ navpc = "idle"

====
